---- MODULE Spec2Model ----
(***************************************************************************)
(* Jordan Water Model (JWM): the rolling-horizon allocation core.          *)
(*                                                                         *)
(* Specification Spec models one simulation run as the simulator drives    *)
(* it: periods in calendar order and, inside a period, the forecast and    *)
(* delivery engines in their declared order.  Every engine action is the   *)
(* whole run() handler, with the solver cascade and the extraction loop of *)
(* the allocation it calls.  Solved values are symbolic: a value records   *)
(* which institution solved it, in which period, for which variable and    *)
(* horizon month, and whether that solve ended optimal.                    *)
(*                                                                         *)
(* The calendar is scaled: a year has MonthsPerYear months, the last one   *)
(* plays the role of December (the literal 12 of the source) and the one   *)
(* before it the role of November (the literal 11).                        *)
(*                                                                         *)
(* The model covers the configuration in which the institutions optimise   *)
(* (parameters cwa_dynamic = 1, jva_allocation = 1, passive_WAJ = 0).      *)
(***************************************************************************)
EXTENDS Integers, Sequences, FiniteSets, TLC

VARIABLES
    idx,            \* network.current_timestep_idx
    pc,             \* which engine of the period runs next
    node,           \* live node state: reservoir volume and release
    link_flow,      \* live link state: flow of the JVA link
    cwa,            \* CWA attributes written by set_allocation
    jva,            \* JVA attributes written by set_allocation_forecast
    waj,            \* WAJ attributes (solver_status, forecasts, deliveries)
    calls,          \* the allocation calls made in the current period
    phases,         \* per institution, the phases passed in this period
    gw,             \* GWResponseEngine attributes (head, pumping) and its data
    market,         \* TankerMarket attributes written by the clearing call
    sim             \* JordanSimulator attributes: timesteps, engines, the loop

vars == <<idx, pc, node, link_flow, cwa, jva, waj, calls, phases, gw, market, sim>>

\* The value of the state of a component that a specification leaves out.
LeftOut == "left out"

----------------------------------------------------------------------------
(* Bounds and calendar *)

MonthsPerYear == 3
MaxTimesteps == 5
StartMonth == 1

Months == 1..MonthsPerYear
December == MonthsPerYear

month_of(i) == ((StartMonth - 1 + i) % MonthsPerYear) + 1
year_of(i) == (StartMonth - 1 + i) \div MonthsPerYear

month == month_of(idx)
first_year == year_of(idx) = year_of(0)

next_month(m) == IF m = December THEN 1 ELSE m + 1

\* range(a, b) of the source as a sequence: a, a+1, .., b-1
Range(a, b) == [i \in 1..(IF b > a THEN b - a ELSE 0) |-> a + i - 1]

SeqToSet(s) == {s[i] : i \in 1..Len(s)}

NoDuplicates(s) == \A i, j \in 1..Len(s) : i # j => s[i] # s[j]

----------------------------------------------------------------------------
(* HorizonIndex: remaining and past months *)

\* CWA: range(month, 13) extended by 1..month-1 (the interpreter is Python 2,
\* where range() is a list), or [12, 1..11] in December.
CWA_rem_months(m) ==
    IF m = December
    THEN <<December>> \o Range(1, December)
    ELSE IF m # 1 THEN Range(m, December + 1) \o Range(1, m)
                  ELSE Range(m, December + 1)

\* A horizon that runs through December as the CWA one does: range(month, 13).
JVA_rem_months_through_december(m) ==
    IF m = December
    THEN <<December>> \o Range(1, December)
    ELSE Range(m, December + 1)

\* JVA: range(month, 12), or [12, 1..11] in December.
JVA_rem_months(m) ==
    IF m = December
    THEN <<December>> \o Range(1, December)
    ELSE Range(m, December)

\* Both institutions: nothing in December; otherwise 1..month-1, preceded by
\* 12 unless the current year is the first simulated year.
past_months(m, firstYear) ==
    IF m = December
    THEN <<>>
    ELSE (IF firstYear THEN <<>> ELSE <<December>>) \o Range(1, m)

----------------------------------------------------------------------------
(* Symbolic solved values *)

Backends == {"ipopt", "cplex", "glpk"}
Outcomes == {"optimal", "not_optimal", "raises"}

\* The value of decision variable var for horizon month m, solved by inst in
\* period t; opt tells whether the solve that produced it ended optimal.
Val(inst, t, var, m, opt) == [by |-> inst, t |-> t, var |-> var, m |-> m, opt |-> opt]

InitVal == [by |-> "init", t |-> 0, var |-> "none", m |-> 0, opt |-> TRUE]

----------------------------------------------------------------------------
(* SolverCascade *)

Attempt(backend, outcome) == [backend |-> backend, outcome |-> outcome]

\* CWA.set_allocation, JVA.set_allocation_forecast and
\* WAJ.determine_gov_delivery share one cascade: the primary solve sits in a
\* try block; when it raises or returns a non-optimal status the secondary
\* solve is called outside any try block, so an error of the secondary
\* backend leaves the call as an exception.  result is the status of the
\* last results object.
TwoStageCascade(primary, secondary, o1, o2) ==
    IF o1 = "optimal"
    THEN [attempts |-> <<Attempt(primary, o1)>>,
          result   |-> "optimal",
          raised   |-> FALSE]
    ELSE [attempts |-> <<Attempt(primary, o1), Attempt(secondary, o2)>>,
          result   |-> IF o2 = "optimal" THEN "optimal" ELSE "not_optimal",
          raised   |-> (o2 = "raises")]

\* A cascade without the fallback: a non-optimal ipopt result is reported at
\* once and cplex is never tried.
WAJ_Cascade_without_fallback(entry_status, o1, o2) ==
    [attempts      |-> <<Attempt(IF entry_status = "ok" THEN "ipopt" ELSE "glpk", o1)>>,
     solver_status |-> IF entry_status # "ok" THEN entry_status
                       ELSE IF o1 = "optimal" THEN "ok" ELSE "not_optimal",
     result        |-> IF o1 = "optimal" THEN "optimal" ELSE "not_optimal",
     raised        |-> (entry_status # "ok" /\ o1 = "raises"),
     has_values    |-> (o1 # "raises")]

\* WAJ.set_allocation_forecast: with solver_status "ok" on entry, ipopt then
\* cplex, both inside try blocks; any other status on entry selects glpk,
\* outside any try block and with no check of its result.  has_values tells
\* whether the instance the extraction reads was filled by a solve that
\* returned (an instance whose solve raised holds no value).
WAJ_Cascade(entry_status, o1, o2) ==
    IF entry_status = "ok"
    THEN IF o1 = "optimal"
         THEN [attempts      |-> <<Attempt("ipopt", o1)>>,
               solver_status |-> "ok",
               result        |-> "optimal",
               raised        |-> FALSE,
               has_values    |-> TRUE]
         ELSE LET s1 == IF o1 = "raises" THEN "ipopt_failed" ELSE "ok"
                  s2 == IF o2 = "raises" THEN "cplex_failed" ELSE s1
              IN [attempts      |-> <<Attempt("ipopt", o1), Attempt("cplex", o2)>>,
                  solver_status |-> IF s2 = "cplex_failed" THEN "not_optimal"
                                    ELSE IF o2 = "optimal" THEN s2
                                    ELSE "not_optimal",
                  result        |-> IF o2 = "optimal" THEN "optimal" ELSE "not_optimal",
                  raised        |-> FALSE,
                  has_values    |-> (o2 # "raises")]
    ELSE [attempts      |-> <<Attempt("glpk", o1)>>,
          solver_status |-> entry_status,
          result        |-> IF o1 = "optimal" THEN "optimal" ELSE "not_optimal",
          raised        |-> (o1 = "raises"),
          has_values    |-> (o1 # "raises")]

\* Each attempt creates an instance of the model and solves it.
RECURSIVE CascadePhases(_)
CascadePhases(attempts) ==
    IF attempts = <<>> THEN <<>>
    ELSE <<"model_build", "solve">> \o CascadePhases(Tail(attempts))

\* An engine that calls the allocation before it refreshes the forecasts.
EngineRunPhases_allocation_first(attempts, extracted) ==
    CascadePhases(attempts) \o <<"forecast_refresh">>
        \o (IF extracted THEN <<"extract">> ELSE <<>>)

\* The phases one engine run passes: the forecast refresh, then the
\* allocation call (the cascade and, when the call gets that far, the
\* extraction loop).
EngineRunPhases(attempts, extracted) ==
    <<"forecast_refresh">> \o CascadePhases(attempts)
        \o (IF extracted THEN <<"extract">> ELSE <<>>)

\* What one allocation call did: reported is the status the caller can read
\* afterwards (WAJ keeps it in self.solver_status; in CWA, JVA and the WAJ
\* delivery it is a local variable and nothing is reported).
CallRecord(inst, entry_status, c, reported, wrote) ==
    [inst         |-> inst,
     entry_status |-> entry_status,
     attempts     |-> c.attempts,
     result       |-> c.result,
     raised       |-> c.raised,
     reported     |-> reported,
     wrote        |-> wrote]

----------------------------------------------------------------------------
(* Extraction loops *)

\* Position of horizon month m in wehdah_release_forecast (0-based).
forecast_offset(m, cur) ==
    IF m = cur THEN 0
    ELSE IF m - cur > 0 THEN m - cur
    ELSE (December - cur) + m

\* An extraction that writes the storage of the current month in every period.
volume_month_current(i, cur) == cur

\* The horizon month whose storage is written to the reservoir volume: the
\* current month at the first timestep, afterwards the month after it.
volume_month(i, cur) ==
    IF i = 0 THEN cur
    ELSE IF cur = December THEN 1
    ELSE cur + 1

\* CWA.set_allocation, the loop over the storage and release variables.
CWA_extract_node(n, rem, i, cur, opt) ==
    [volume  |-> IF volume_month(i, cur) \in SeqToSet(rem)
                 THEN Val("cwa", i, "storage", volume_month(i, cur), opt)
                 ELSE n.volume,
     release |-> Val("cwa", i, "release", cur, opt)]

CWA_extract_inst(rem, i, cur, opt) ==
    [wehdah_release          |-> Val("cwa", i, "release", cur, opt),
     wehdah_release_forecast |->
         [k \in 0..(Len(rem) - 1) |->
             LET m == CHOOSE mm \in SeqToSet(rem) : forecast_offset(mm, cur) = k
             IN Val("cwa", i, "release", m, opt)]]

\* JVA.set_allocation_forecast, the loops over storage, release, delivery, Q.
JVA_extract_node(n, rem, i, cur, opt) ==
    [volume  |-> IF volume_month(i, cur) \in SeqToSet(rem)
                 THEN Val("jva", i, "storage", volume_month(i, cur), opt)
                 ELSE n.volume,
     release |-> Val("jva", i, "release", cur, opt)]

JVA_extract_inst(j, rem, i, cur, opt) ==
    [node_allocations |->
         [m \in Months |-> IF m \in SeqToSet(rem)
                           THEN Val("jva", i, "delivery", m, opt)
                           ELSE j.node_allocations[m]],
     node_delivery    |-> Val("jva", i, "delivery", cur, opt),
     history_len      |-> j.history_len + 1]

\* WAJ.set_allocation_forecast: the forecasts cover every month of the year.
WAJ_extract_forecast(var, i, opt) ==
    [m \in Months |-> Val("waj", i, var, m, opt)]

EmptyDict == <<>>

----------------------------------------------------------------------------
(* Initial state: the simulator after construction, before the first       *)
(* timestep                                                                *)

NoPhases == [i \in {"cwa", "jva", "waj"} |-> <<>>]

Init ==
    /\ idx = 0
    /\ pc = "set_timestep"
    /\ node = [n \in {"wehdah_res", "talal_res"} |->
                  [volume |-> InitVal, release |-> InitVal]]
    /\ link_flow = InitVal
    /\ cwa = [wehdah_release |-> InitVal, wehdah_release_forecast |-> EmptyDict]
    /\ jva = [node_allocations |-> [m \in Months |-> InitVal],
              node_delivery |-> InitVal,
              history_len |-> 0]
    /\ waj = [solver_status       |-> "none",
              allocation_forecast |-> EmptyDict,
              pumping_forecast    |-> EmptyDict,
              deficit_forecast    |-> EmptyDict,
              transfer_forecast   |-> EmptyDict,
              gov_delivery        |-> InitVal,
              real_extraction     |-> InitVal]
    /\ calls = <<>>
    /\ phases = NoPhases
    /\ gw = LeftOut
    /\ market = LeftOut
    /\ sim = LeftOut

----------------------------------------------------------------------------
(* The period loop of the simulator and the engines, in declared order *)

\* network.set_timestep: every component's setup(); WAJ.setup resets
\* solver_status.
set_timestep ==
    /\ pc = "set_timestep"
    /\ waj' = [waj EXCEPT !.solver_status = "ok"]
    /\ calls' = <<>>
    /\ phases' = NoPhases
    /\ pc' = "cwa_forecast"
    /\ UNCHANGED <<idx, node, link_flow, cwa, jva, gw, market, sim>>

\* CWAForecastEngine.run: CWA.set_allocation.
CWAForecastEngine_run ==
    /\ pc = "cwa_forecast"
    /\ \E o1, o2 \in Outcomes :
        LET c   == TwoStageCascade("ipopt", "cplex", o1, o2)
            rem == CWA_rem_months(month)
            opt == (c.result = "optimal")
        IN IF c.raised
           THEN /\ calls' = Append(calls, CallRecord("cwa", "ok", c, "none", {}))
                /\ phases' = [phases EXCEPT !["cwa"] = EngineRunPhases(c.attempts, FALSE)]
                /\ pc' = "aborted"
                /\ UNCHANGED <<node, cwa>>
           ELSE /\ node' = [node EXCEPT !["wehdah_res"] =
                               CWA_extract_node(@, rem, idx, month, opt)]
                /\ cwa' = CWA_extract_inst(rem, idx, month, opt)
                /\ calls' = Append(calls, CallRecord("cwa", "ok", c, "none",
                                {"volume", "release", "wehdah_release",
                                 "wehdah_release_forecast"}))
                /\ phases' = [phases EXCEPT !["cwa"] = EngineRunPhases(c.attempts, TRUE)]
                /\ pc' = "jva_forecast"
    /\ UNCHANGED <<idx, link_flow, jva, waj, gw, market, sim>>

\* JVAValleyForecastEngine.run: det_demand_forecast, set_allocation_forecast.
JVAValleyForecastEngine_run ==
    /\ pc = "jva_forecast"
    /\ \E o1, o2 \in Outcomes :
        LET c   == TwoStageCascade("ipopt", "cplex", o1, o2)
            rem == JVA_rem_months(month)
            opt == (c.result = "optimal")
        IN IF c.raised
           THEN /\ calls' = Append(calls, CallRecord("jva", "ok", c, "none", {}))
                /\ phases' = [phases EXCEPT !["jva"] = EngineRunPhases(c.attempts, FALSE)]
                /\ pc' = "aborted"
                /\ UNCHANGED <<node, link_flow, jva>>
           ELSE /\ node' = [node EXCEPT !["talal_res"] =
                               JVA_extract_node(@, rem, idx, month, opt)]
                /\ link_flow' = Val("jva", idx, "Q", month, opt)
                /\ jva' = JVA_extract_inst(jva, rem, idx, month, opt)
                /\ calls' = Append(calls, CallRecord("jva", "ok", c, "none",
                                {"release", "flow", "node_allocations",
                                 "node_delivery"}
                                \cup (IF volume_month(idx, month) \in SeqToSet(rem)
                                      THEN {"volume"} ELSE {})))
                /\ phases' = [phases EXCEPT !["jva"] = EngineRunPhases(c.attempts, TRUE)]
                /\ pc' = "waj_forecast"
    /\ UNCHANGED <<idx, cwa, waj, gw, market, sim>>

\* WAJ.set_allocation_forecast as one call: the forecast attributes are
\* emptied on entry, the cascade runs, and the extraction loops read the
\* instance; reading an instance that holds no value raises in the first
\* loop, before any forecast is written.
WAJ_set_allocation_forecast(w, i, o1, o2) ==
    LET c      == WAJ_Cascade(w.solver_status, o1, o2)
        opt    == (c.result = "optimal")
        failed == c.raised \/ ~c.has_values
    IN [waj    |-> [w EXCEPT
                     !.solver_status       = IF c.raised THEN @ ELSE c.solver_status,
                     !.allocation_forecast = IF failed THEN EmptyDict
                                             ELSE WAJ_extract_forecast("allocation", i, opt),
                     !.pumping_forecast    = IF failed THEN EmptyDict
                                             ELSE WAJ_extract_forecast("P", i, opt),
                     !.deficit_forecast    = IF failed THEN EmptyDict
                                             ELSE WAJ_extract_forecast("deficit", i, opt),
                     !.transfer_forecast   = IF failed THEN EmptyDict
                                             ELSE WAJ_extract_forecast("Q", i, opt)],
        call   |-> [CallRecord("waj", w.solver_status, c,
                               IF c.raised THEN w.solver_status ELSE c.solver_status,
                               IF failed THEN {}
                               ELSE {"allocation_forecast", "pumping_forecast",
                                     "deficit_forecast", "transfer_forecast"})
                    EXCEPT !.raised = failed]]

\* WAJForecastEngine.run: in January only, refresh the forecasts, run the
\* allocation, and run it once more when solver_status is not "ok".
WAJForecastEngine_run ==
    /\ pc = "waj_forecast"
    /\ IF month = 1
       THEN \E o1, o2, o3 \in Outcomes :
            LET first  == WAJ_set_allocation_forecast(waj, idx, o1, o2)
                second == WAJ_set_allocation_forecast(first.waj, idx, o3, o3)
                ph1    == EngineRunPhases(first.call.attempts, ~first.call.raised)
                ph2    == Tail(EngineRunPhases(second.call.attempts, ~second.call.raised))
            IN IF first.call.raised
               THEN /\ waj' = first.waj
                    /\ calls' = Append(calls, first.call)
                    /\ phases' = [phases EXCEPT !["waj"] = ph1]
                    /\ pc' = "aborted"
               ELSE IF first.waj.solver_status # "ok"
               THEN /\ waj' = second.waj
                    /\ calls' = calls \o <<first.call, second.call>>
                    /\ phases' = [phases EXCEPT !["waj"] = ph1 \o ph2]
                    /\ pc' = IF second.call.raised THEN "aborted" ELSE "waj_delivery"
               ELSE /\ waj' = first.waj
                    /\ calls' = Append(calls, first.call)
                    /\ phases' = [phases EXCEPT !["waj"] = ph1]
                    /\ pc' = "waj_delivery"
       ELSE /\ pc' = "waj_delivery"
            /\ UNCHANGED <<waj, calls, phases>>
    /\ UNCHANGED <<idx, node, link_flow, cwa, jva, gw, market, sim>>

\* WAJDeliveryEngine.run: WAJ.determine_gov_delivery for the current month.
WAJDeliveryEngine_run ==
    /\ pc = "waj_delivery"
    /\ \E o1, o2 \in Outcomes :
        LET c   == TwoStageCascade("glpk", "cplex", o1, o2)
            opt == (c.result = "optimal")
        IN IF c.raised
           THEN /\ calls' = Append(calls, CallRecord("waj_delivery", "ok", c, "none", {}))
                /\ pc' = "aborted"
                /\ UNCHANGED waj
           ELSE /\ waj' = [waj EXCEPT
                             !.gov_delivery    = Val("waj_delivery", idx, "supply", month, opt),
                             !.real_extraction = Val("waj_delivery", idx, "P", month, opt)]
                /\ calls' = Append(calls, CallRecord("waj_delivery", "ok", c, "none",
                                                     {"gov_delivery", "real_extraction"}))
                /\ pc' = "post_process"
    /\ UNCHANGED <<idx, node, link_flow, cwa, jva, phases, gw, market, sim>>

\* network.post_process and the step of the loop over the timesteps.
post_process ==
    /\ pc = "post_process"
    /\ IF idx + 1 < MaxTimesteps
       THEN idx' = idx + 1 /\ pc' = "set_timestep"
       ELSE idx' = idx /\ pc' = "finished"
    /\ UNCHANGED <<node, link_flow, cwa, jva, waj, calls, phases, gw, market, sim>>

Next ==
    \/ set_timestep
    \/ CWAForecastEngine_run
    \/ JVAValleyForecastEngine_run
    \/ WAJForecastEngine_run
    \/ WAJDeliveryEngine_run
    \/ post_process

Spec == Init /\ [][Next]_vars

----------------------------------------------------------------------------
(* Properties of the period loop, checked under Spec *)

\* Every value held in live node or link state.
LiveValues ==
    {node[n].volume : n \in DOMAIN node} \cup {node[n].release : n \in DOMAIN node}
        \cup {link_flow}

ForecastValues(f) == {f[k] : k \in DOMAIN f}

\* Every value held in an institution attribute.
InstitutionValues ==
    {cwa.wehdah_release, jva.node_delivery, waj.gov_delivery, waj.real_extraction}
        \cup ForecastValues(cwa.wehdah_release_forecast)
        \cup ForecastValues(jva.node_allocations)
        \cup ForecastValues(waj.allocation_forecast)
        \cup ForecastValues(waj.pumping_forecast)
        \cup ForecastValues(waj.deficit_forecast)
        \cup ForecastValues(waj.transfer_forecast)

Extracted(c) == c.result = "optimal" /\ ~c.raised /\ c.wrote # {}
Skipped(c) == c.result # "optimal" /\ c.wrote = {}

\* C1: every allocation call of CWA, JVA and WAJ ends either Extracted (the
\* solve was optimal and its values were written) or Skipped (the solve
\* failed and nothing of it was written); no value of a failed solve sits in
\* node, link or institution state.
C1_ExtractedOrSkipped ==
    /\ \A k \in 1..Len(calls) :
          calls[k].inst \in {"cwa", "jva", "waj"}
              => (Extracted(calls[k]) \/ Skipped(calls[k]))
    /\ \A v \in LiveValues \cup InstitutionValues :
          v.by \in {"cwa", "jva", "waj"} => v.opt

AllNotOptimal(c) ==
    \A a \in 1..Len(c.attempts) : c.attempts[a].outcome = "not_optimal"

C3_NoSolverFailurePropagates ==
    /\ \A k \in 1..Len(calls) : ~calls[k].raised
    /\ pc # "aborted"

Before(s, i, what) == \E j \in 1..(i - 1) : s[j] = what

WrittenLive == {v \in LiveValues : v.by # "init"}

\* C5 as stated: everything an extraction writes to live node and link state
\* (reservoir volume and release, link flow, node delivery) is the value of
\* the first horizon month, the current month of the period that solved it.
C5_OnlyFirstMonthInLiveState ==
    \A v \in WrittenLive \cup ({jva.node_delivery} \ {InitVal}) :
        v.m = month_of(v.t)

\* C5: release, link flow and node delivery in live state are values of the
\* current month of the period that solved them; the reservoir volume is the
\* storage of the current month in the first period and the storage of the
\* month after the current one in every later period; values of the other
\* horizon months are found in the forecast attributes only.
C5_LiveStateMonths ==
    /\ \A v \in (WrittenLive \cup ({jva.node_delivery} \ {InitVal})) :
          IF v.var = "storage"
          THEN v.m = (IF v.t = 0 THEN month_of(0) ELSE next_month(month_of(v.t)))
          ELSE v.m = month_of(v.t)
    /\ \A n \in DOMAIN node :
          /\ node[n].volume.var \in {"storage", "none"}
          /\ node[n].release.var \in {"release", "none"}

C5_Witness ==
    /\ node["wehdah_res"].volume.t > 0
    /\ node["wehdah_res"].volume.m # month_of(node["wehdah_res"].volume.t)
    /\ node["talal_res"].volume.t > 0
    /\ node["wehdah_res"].release.t > 0
    /\ \E k \in DOMAIN cwa.wehdah_release_forecast :
          cwa.wehdah_release_forecast[k].m # month

Partition(rem, past) ==
    /\ NoDuplicates(rem \o past)
    /\ SeqToSet(rem \o past) = Months

\* C7 as stated: in every period the remaining months and the past months of
\* CWA and of JVA are disjoint and together hold every month of the year
\* exactly once.
C7_RemainingAndPastPartitionYear ==
    /\ Partition(CWA_rem_months(month), past_months(month, first_year))
    /\ Partition(JVA_rem_months(month), past_months(month, first_year))

\* C7: the JVA remaining and past months never share a month and never
\* repeat one; together they hold every month of the year in December and in
\* every month after the first simulated year, and every month but December
\* before the first December.  The CWA remaining months alone hold every
\* month of the year exactly once, so the CWA past months, whenever there are
\* any, are all found among the remaining months as well.
C7_HorizonIndexSets ==
    LET jrem == JVA_rem_months(month)
        crem == CWA_rem_months(month)
        past == past_months(month, first_year)
    IN /\ NoDuplicates(jrem \o past)
       /\ SeqToSet(jrem \o past) =
             (IF first_year /\ month # December THEN Months \ {December} ELSE Months)
       /\ jrem # <<>> /\ jrem[1] = month
       /\ NoDuplicates(crem) /\ SeqToSet(crem) = Months /\ crem[1] = month
       /\ NoDuplicates(past) /\ SeqToSet(past) \subseteq SeqToSet(crem)
       /\ month \notin SeqToSet(past)

C7_Witness ==
    /\ ~first_year
    /\ month # December
    /\ pc = "waj_forecast"
    /\ past_months(month, first_year) # <<>>
    /\ jva.history_len > MonthsPerYear

----------------------------------------------------------------------------
(* The allocation models in numbers.                                       *)
(*                                                                         *)
(* Specification SpecAlloc follows the runs in which every solve returns   *)
(* an optimal result (the other runs are those of Spec) and keeps the      *)
(* numbers: the parameters every model is built from, the solution the     *)
(* solver returns and what the extraction writes.  Volumes are counted in  *)
(* units of 1145846 cubic metres on the grid 0..MaxValue.  An optimal      *)
(* solve of the CWA or the JVA model returns one of the points that        *)
(* satisfy every constraint of the model and make its objective least.     *)
(* The objective of the WAJ model depends on cost coefficients of the      *)
(* input data: its solve returns some point that satisfies every           *)
(* constraint, so what holds of every such point holds of every solution   *)
(* the solver accepts.  The auxiliary variables of the WAJ model that      *)
(* enter no constraint on the flows (pos_deficit and the cost              *)
(* linearisation) are projected away.                                      *)

MaxValue == 4
MaxSpill == 1

Values == 0..MaxValue

\* a/b <= 1.1 * c/d and a/b >= 0.9 * c/d for positive b and d
LeqTenPercent(a, b, c, d) == 10 * a * d <= 11 * c * b
GeqTenPercent(a, b, c, d) == 10 * a * d >= 9 * c * b

\* The month before m in the calendar: 12 before 1.
previous_month(m) == IF m = 1 THEN December ELSE m - 1

\* The points of S extended by every value of dom[k] for each variable k of
\* the variable family field, one variable after the other.
RECURSIVE Assign(_, _, _, _)
Assign(S, field, keys, dom) ==
    IF keys = {} THEN S
    ELSE LET k == CHOOSE x \in keys : TRUE
         IN Assign({[t EXCEPT ![field] = @ @@ (k :> v)] : t \in S, v \in dom[k]},
                   field, keys \ {k}, dom)

\* The points of S at which the objective, given as a function on S, is least.
Minimal(S, objective) ==
    LET values == {objective[s] : s \in S}
    IN {s \in S : \A v \in values : objective[s] <= v}

RECURSIVE Sum(_, _)
Sum(f, S) ==
    IF S = {} THEN 0
    ELSE LET x == CHOOSE y \in S : TRUE IN f[x] + Sum(f, S \ {x})

\* Exogenous inputs and observations, read from the input workbooks.
wehdah_release_target == [m \in Months |-> IF m = 2 THEN 4 ELSE 2]
inflow_averages == [n \in {"wehdah_res", "talal_res"} |-> [m \in Months |-> 1]]
evap_averages ==
    [n \in {"wehdah_res", "talal_res"} |-> [m \in Months |-> IF m = 1 THEN 1 ELSE 0]]
volume_averages ==
    [n \in {"wehdah_res", "talal_res"} |-> [m \in Months |-> IF n = "wehdah_res" THEN 4 ELSE 2]]
live_storage_capacity == [n \in {"wehdah_res", "talal_res"} |-> 4]

\* The inflow added to the Wehdah storage at the second timestep (1145846.0).
wehdah_inflow_initial == 1

----------------------------------------------------------------------------
(* CWA.set_allocation: parameters, constraints, feasible points *)

\* initial_storage: the volume at the first timestep, the volume less the
\* last release plus a fixed inflow at the second, the last recorded volume
\* afterwards.
CWA_initial_storage(nd, i) ==
    IF i = 0 THEN nd.volume
    ELSE IF i = 1 THEN nd.volume - nd.history_release + wehdah_inflow_initial
    ELSE nd.history_volume

\* past_deficit: nothing in December and at the first timestep; the month
\* before from self.wehdah_release at the second timestep; from the history
\* of wehdah_release afterwards.  A deficit is kept as <<numerator,
\* denominator>>.
CWA_past_deficit(c, past, i, cur) ==
    IF cur = December \/ i = 0 THEN <<>>
    ELSE IF i = 1
    THEN (cur - 1) :> <<wehdah_release_target[cur - 1] - c.wehdah_release,
                        wehdah_release_target[cur - 1]>>
    ELSE [m \in SeqToSet(past) |->
             <<wehdah_release_target[m] - c.wehdah_release_history[m],
               wehdah_release_target[m]>>]

\* current_demand_forecast: the release target of the month, and in December
\* the targets shifted by one position.
CWA_demand(cur) ==
    [m \in Months |->
        IF cur = December THEN wehdah_release_target[previous_month(m)]
        ELSE wehdah_release_target[m]]

\* Perfect foresight for the current month, averages for the other months.
CWA_inflow(nd, cur) ==
    [m \in Months |-> IF m = cur THEN nd.inflow ELSE inflow_averages["wehdah_res"][m]]

CWA_evap(nd, cur) ==
    [m \in Months |-> IF m = cur THEN nd.evap ELSE evap_averages["wehdah_res"][m]]

CWA_model(nd, c, i, cur, firstYear) ==
    [rem_months      |-> CWA_rem_months(cur),
     past_months     |-> past_months(cur, firstYear),
     cur             |-> cur,
     idx             |-> i,
     inflow          |-> CWA_inflow(nd, cur),
     evap            |-> CWA_evap(nd, cur),
     demand          |-> CWA_demand(cur),
     initial_storage |-> CWA_initial_storage(nd, i),
     past_def        |-> CWA_past_deficit(c, past_months(cur, firstYear), i, cur)]

\* A transition of the storage that leaves the evaporation out.
CWA_res_balance_storage_without_evap(p, s, m) ==
    IF m = p.cur
    THEN s.storage[m] = p.initial_storage
    ELSE LET q == previous_month(m)
         IN s.storage[m] - s.storage[q] + s.release[q] - p.inflow[q] + s.spill[q] = 0

CWA_res_balance_storage(p, s, m) ==
    IF m = p.cur
    THEN s.storage[m] = p.initial_storage
    ELSE LET q == previous_month(m)
         IN s.storage[m] - s.storage[q] + s.release[q] - p.inflow[q]
                + p.evap[q] + s.spill[q] = 0

CWA_smooth_deficit_month_lesser_v2(p, s, m, other_month) ==
    IF other_month = m THEN TRUE
    ELSE LeqTenPercent(p.demand[m] - s.release[m], p.demand[m],
                       p.demand[other_month] - s.release[other_month],
                       p.demand[other_month])

CWA_smooth_deficit_month_greater_v2(p, s, m, other_month) ==
    IF other_month = m THEN TRUE
    ELSE GeqTenPercent(p.demand[m] - s.release[m], p.demand[m],
                       p.demand[other_month] - s.release[other_month],
                       p.demand[other_month])

CWA_smooth_deficit_past_month_greater_v2(p, s, m, past_month) ==
    IF p.cur = December \/ p.idx = 0 THEN TRUE
    ELSE GeqTenPercent(p.demand[m] - s.release[m], p.demand[m],
                       p.past_def[past_month][1], p.past_def[past_month][2])

CWA_res_minimum_storage(p, s, m) == s.storage[m] >= 0

CWA_res_maximum_storage(p, s, m) ==
    s.storage[m] <= live_storage_capacity["wehdah_res"]

CWA_delivery_capacity(p, s, m) == s.release[m] <= p.demand[m]

\* Every constraint of the model whose indices lie in the months ms.
CWA_constraints(p, s, ms) ==
    \A m \in ms :
        /\ CWA_res_balance_storage(p, s, m)
        /\ CWA_res_minimum_storage(p, s, m)
        /\ CWA_res_maximum_storage(p, s, m)
        /\ CWA_delivery_capacity(p, s, m)
        /\ \A other_month \in ms :
              /\ CWA_smooth_deficit_month_lesser_v2(p, s, m, other_month)
              /\ CWA_smooth_deficit_month_greater_v2(p, s, m, other_month)
        /\ \A past_month \in SeqToSet(p.past_months) :
              CWA_smooth_deficit_past_month_greater_v2(p, s, m, past_month)

CWA_no_values == [release |-> <<>>, storage |-> <<>>, spill |-> <<>>]

\* The points that satisfy the constraints on the first k months of the
\* horizon, found month by month.
RECURSIVE CWA_points(_, _)
CWA_points(p, k) ==
    IF k = 0 THEN {CWA_no_values}
    ELSE LET m  == p.rem_months[k]
             ms == {p.rem_months[j] : j \in 1..k}
         IN {s \in {[release |-> t.release @@ (m :> r),
                     storage |-> t.storage @@ (m :> st),
                     spill   |-> t.spill @@ (m :> sp)] :
                       t \in CWA_points(p, k - 1),
                       r \in Values, st \in Values, sp \in 0..MaxSpill} :
                CWA_constraints(p, s, ms)}

CWA_feasible(p) == CWA_points(p, Len(p.rem_months))

\* The objective: the sum of demand less release over the horizon.
CWA_objective_function(p, s) ==
    Sum([m \in SeqToSet(p.rem_months) |-> p.demand[m] - s.release[m]],
        SeqToSet(p.rem_months))

\* What an optimal solve can return.
CWA_solutions(F, p) == Minimal(F, [s \in F |-> CWA_objective_function(p, s)])

----------------------------------------------------------------------------
(* JVA.set_allocation_forecast: network, parameters, constraints *)

\* The part of the Jordan Valley network the model keeps: one reservoir that
\* releases into the canal node kac_7, which passes water on to the stage
\* offices so1 and so10 and to the transfer out of the valley.
jva_nodes == {"talal_res", "kac_7", "so1", "so10"}
storage_nodes == {"talal_res"}
non_storage_nodes == jva_nodes \ storage_nodes
demand_nodes == {"so1", "so10"}
jva_links == {<<"talal_res", "kac_7">>, <<"kac_7", "so1">>, <<"kac_7", "so10">>}

incoming_links(n) == {l \in jva_links : l[2] = n}
outgoing_links(n) == {l \in jva_links : l[1] = n}

\* model.cost[link] * .000006 * jva_nrw_factor, counted in halves: the link
\* out of the reservoir loses half of its flow, the other links nothing.
loss_halves(l) == IF l = <<"talal_res", "kac_7">> THEN 1 ELSE 0

demand_forecast_per_node ==
    [n \in demand_nodes |->
        [m \in Months |-> IF n = "so10" THEN 1
                          ELSE IF m = December THEN 0 ELSE 2]]
kac_to_zai == [m \in Months |-> IF m = 2 THEN 1 ELSE 0]
max_release == [n \in storage_nodes |-> 4]
avg_seep == [n \in storage_nodes |-> 1]
res_inflow_initial == [n \in storage_nodes |-> 1]
talal_inflow_averages == [m \in Months |-> 2]

\* The demand of a reservoir (10000000000): it lets the reservoir spill.
reservoir_demand == MaxSpill

\* An anchor that takes the volume of the node in every period.
JVA_initial_storage_from_volume(nd, n, i) == nd.volume

JVA_initial_storage(nd, n, i) ==
    IF i = 0 THEN nd.volume
    ELSE IF i = 1 THEN nd.volume - nd.history_release + res_inflow_initial[n]
    ELSE nd.history_volume

\* past_deficit: the deficit of each past month, from the allocation the
\* history holds for the timestep in which that month was the current one.
JVA_past_deficit(j, past, i, cur) ==
    IF cur # December /\ i # 0
    THEN [k \in demand_nodes \X SeqToSet(past) |->
             IF demand_forecast_per_node[k[1]][k[2]] > 0
             THEN <<demand_forecast_per_node[k[1]][k[2]]
                       - j.node_allocations_history[k[1]][k[2]],
                    demand_forecast_per_node[k[1]][k[2]]>>
             ELSE <<0, 1>>]
    ELSE <<>>

JVA_demand(n, m) ==
    IF n \in demand_nodes THEN demand_forecast_per_node[n][m]
    ELSE IF n \in storage_nodes THEN reservoir_demand
    ELSE 0

\* Inflow: the reservoir's own inflow (the current month's is known, the
\* later ones are averages); the other nodes of this network have none.
JVA_inflow(nd, n, m, cur) ==
    IF n \in storage_nodes
    THEN IF m = cur THEN nd.inflow ELSE talal_inflow_averages[m]
    ELSE 0

\* Evaporation: res.evap in a horizon built in December, 0 for the current
\* month otherwise, averages for the later months.
JVA_evap(nd, n, m, cur) ==
    IF m = cur THEN (IF cur = December THEN nd.evap ELSE 0)
    ELSE evap_averages[n][m]

JVA_exog_outflow(n, m) == IF n = "kac_7" THEN kac_to_zai[m] ELSE 0

JVA_model(nd, j, i, cur, firstYear) ==
    [rem_months      |-> JVA_rem_months(cur),
     past_months     |-> past_months(cur, firstYear),
     cur             |-> cur,
     idx             |-> i,
     inflow          |-> [k \in jva_nodes \X Months |-> JVA_inflow(nd, k[1], k[2], cur)],
     evap            |-> [k \in storage_nodes \X Months |-> JVA_evap(nd, k[1], k[2], cur)],
     seepage         |-> [k \in storage_nodes \X Months |-> avg_seep[k[1]]],
     exog_outflow    |-> [k \in jva_nodes \X Months |-> JVA_exog_outflow(k[1], k[2])],
     demand          |-> [k \in jva_nodes \X Months |-> JVA_demand(k[1], k[2])],
     storage_avg     |-> [k \in storage_nodes \X Months |-> volume_averages[k[1]][k[2]]],
     initial_storage |-> [n \in storage_nodes |-> JVA_initial_storage(nd, n, i)],
     past_def        |-> JVA_past_deficit(j, past_months(cur, firstYear), i, cur)]

\* Twice the flow that arrives over the incoming links of n in month m, net
\* of the conveyance loss.
JVA_net_link_inflow_x2(s, n, m) ==
    Sum([l \in incoming_links(n) |->
            2 * s.Q[<<l[1], l[2], m>>] - loss_halves(l) * s.Q[<<l[1], l[2], m>>]],
        incoming_links(n))

JVA_link_outflow(s, n, m) ==
    Sum([l \in outgoing_links(n) |-> s.Q[<<l[1], l[2], m>>]], outgoing_links(n))

\* A balance that takes the link inflow gross of the conveyance loss.
JVA_m_mass_balance_demand_gross(p, s, n, m) ==
    (Sum([l \in incoming_links(n) |-> s.Q[<<l[1], l[2], m>>]], incoming_links(n))
        + p.inflow[<<n, m>>])
        - (JVA_link_outflow(s, n, m) + s.delivery[<<n, m>>] + p.exog_outflow[<<n, m>>]) = 0

JVA_m_mass_balance_demand(p, s, n, m) ==
    (JVA_net_link_inflow_x2(s, n, m) + 2 * p.inflow[<<n, m>>])
        - 2 * (JVA_link_outflow(s, n, m) + s.delivery[<<n, m>>]
               + p.exog_outflow[<<n, m>>]) = 0

JVA_m_mass_balance_storage(p, s, n, m) ==
    s.release[<<n, m>>] - JVA_link_outflow(s, n, m) = 0

JVA_res_balance_storage(p, s, n, m) ==
    IF m = p.cur
    THEN s.storage[<<n, m>>] = p.initial_storage[n]
    ELSE LET q == previous_month(m)
         IN 2 * (s.storage[<<n, m>>] - s.storage[<<n, q>>] + s.release[<<n, q>>]
                 - p.inflow[<<n, q>>])
              - JVA_net_link_inflow_x2(s, n, q)
              + 2 * (s.delivery[<<n, q>>] + p.evap[<<n, q>>] + p.seepage[<<n, q>>]) = 0

JVA_res_balance_plus_minus(p, s, n, m) ==
    s.storage[<<n, m>>] =
        p.storage_avg[<<n, m>>] + s.storage_plus[<<n, m>>] - s.storage_minus[<<n, m>>]

JVA_smooth_negstorage_month_lesser(p, s, n, m, other_month) ==
    IF other_month = m \/ n = "kafrein_res" \/ n = "karameh_res" THEN TRUE
    ELSE s.storage_minus[<<n, m>>] * p.storage_avg[<<n, other_month>>]
            <= 2 * s.storage_minus[<<n, other_month>>] * p.storage_avg[<<n, m>>]

JVA_smooth_negstorage_month_greater(p, s, n, m, other_month) ==
    IF other_month = m \/ n = "kafrein_res" \/ n = "karameh_res" THEN TRUE
    ELSE 2 * s.storage_minus[<<n, m>>] * p.storage_avg[<<n, other_month>>]
            >= s.storage_minus[<<n, other_month>>] * p.storage_avg[<<n, m>>]

JVA_smooth_negstorage_node_lesser(p, s, n, other_node, m) ==
    IF other_node = n \/ n = "kafrein_res" \/ n = "karameh_res"
          \/ other_node = "kafrein_res" \/ other_node = "karameh_res"
    THEN TRUE
    ELSE s.storage_minus[<<n, m>>] * p.storage_avg[<<other_node, m>>]
            <= 2 * s.storage_minus[<<other_node, m>>] * p.storage_avg[<<n, m>>]

JVA_smooth_negstorage_node_greater(p, s, n, other_node, m) ==
    IF other_node = n \/ n = "kafrein_res" \/ n = "karameh_res"
          \/ other_node = "kafrein_res" \/ other_node = "karameh_res"
    THEN TRUE
    ELSE 2 * s.storage_minus[<<n, m>>] * p.storage_avg[<<other_node, m>>]
            >= s.storage_minus[<<other_node, m>>] * p.storage_avg[<<n, m>>]

\* A deficit that is never felt: it makes every smoothing band hold.
JVA_deficit_none(p, s, n, m) == 0

JVA_deficit(p, s, n, m) == p.demand[<<n, m>>] - s.delivery[<<n, m>>]

JVA_smooth_deficit_month_lesser_v2(p, s, n, m, other_month) ==
    IF other_month = m \/ p.demand[<<n, m>>] = 0
          \/ p.demand[<<n, other_month>>] = 0 \/ n = "so10"
    THEN TRUE
    ELSE LeqTenPercent(JVA_deficit(p, s, n, m), p.demand[<<n, m>>],
                       JVA_deficit(p, s, n, other_month), p.demand[<<n, other_month>>])

JVA_smooth_deficit_month_greater_v2(p, s, n, m, other_month) ==
    IF other_month = m \/ p.demand[<<n, m>>] = 0
          \/ p.demand[<<n, other_month>>] = 0 \/ n = "so10"
    THEN TRUE
    ELSE GeqTenPercent(JVA_deficit(p, s, n, m), p.demand[<<n, m>>],
                       JVA_deficit(p, s, n, other_month), p.demand[<<n, other_month>>])

JVA_smooth_deficit_past_month_greater_v2(p, s, n, m, past_month) ==
    IF p.cur = December \/ p.idx = 0 \/ p.demand[<<n, m>>] = 0 \/ n = "so10"
    THEN TRUE
    ELSE GeqTenPercent(JVA_deficit(p, s, n, m), p.demand[<<n, m>>],
                       p.past_def[<<n, past_month>>][1], p.past_def[<<n, past_month>>][2])

JVA_smooth_deficit_node_lesser(p, s, n, other_node, m) ==
    IF other_node = n \/ p.demand[<<n, m>>] = 0 \/ p.demand[<<other_node, m>>] = 0
          \/ other_node = "so10" \/ n = "so10"
    THEN TRUE
    ELSE LeqTenPercent(JVA_deficit(p, s, n, m), p.demand[<<n, m>>],
                       JVA_deficit(p, s, other_node, m), p.demand[<<other_node, m>>])

JVA_smooth_deficit_node_greater(p, s, n, other_node, m) ==
    IF other_node = n \/ p.demand[<<n, m>>] = 0 \/ p.demand[<<other_node, m>>] = 0
          \/ other_node = "so10" \/ n = "so10"
    THEN TRUE
    ELSE GeqTenPercent(JVA_deficit(p, s, n, m), p.demand[<<n, m>>],
                       JVA_deficit(p, s, other_node, m), p.demand[<<other_node, m>>])

JVA_res_max_release(p, s, n, m) == s.release[<<n, m>>] <= max_release[n]

JVA_res_minimum_storage(p, s, n, m) == s.storage[<<n, m>>] >= 0

JVA_res_maximum_storage(p, s, n, m) == s.storage[<<n, m>>] <= live_storage_capacity[n]

JVA_delivery_capacity(p, s, n, m) == s.delivery[<<n, m>>] <= p.demand[<<n, m>>]

\* Every constraint of the model whose indices lie in the months ms.
\* The constraints on flows, deliveries, releases and storage whose indices
\* lie in the months ms.
JVA_flow_constraints(p, s, ms) ==
    \A m \in ms :
        /\ \A n \in non_storage_nodes :
              /\ JVA_m_mass_balance_demand(p, s, n, m)
              /\ JVA_delivery_capacity(p, s, n, m)
        /\ \A n \in storage_nodes :
              /\ JVA_m_mass_balance_storage(p, s, n, m)
              /\ JVA_res_balance_storage(p, s, n, m)
              /\ JVA_res_max_release(p, s, n, m)
              /\ JVA_res_minimum_storage(p, s, n, m)
              /\ JVA_res_maximum_storage(p, s, n, m)
        /\ \A n \in demand_nodes :
              /\ \A other_month \in ms :
                    /\ JVA_smooth_deficit_month_lesser_v2(p, s, n, m, other_month)
                    /\ JVA_smooth_deficit_month_greater_v2(p, s, n, m, other_month)
              /\ \A past_month \in SeqToSet(p.past_months) :
                    JVA_smooth_deficit_past_month_greater_v2(p, s, n, m, past_month)
              /\ \A other_node \in demand_nodes :
                    /\ JVA_smooth_deficit_node_lesser(p, s, n, other_node, m)
                    /\ JVA_smooth_deficit_node_greater(p, s, n, other_node, m)

\* The constraints on the deviation of the storage from its average.
JVA_storage_deviation_constraints(p, s, ms) ==
    \A m \in ms : \A n \in storage_nodes :
        /\ JVA_res_balance_plus_minus(p, s, n, m)
        /\ \A other_month \in ms :
              /\ JVA_smooth_negstorage_month_lesser(p, s, n, m, other_month)
              /\ JVA_smooth_negstorage_month_greater(p, s, n, m, other_month)
        /\ \A other_node \in storage_nodes :
              /\ JVA_smooth_negstorage_node_lesser(p, s, n, other_node, m)
              /\ JVA_smooth_negstorage_node_greater(p, s, n, other_node, m)

\* Every constraint of the model whose indices lie in the months ms.
JVA_constraints(p, s, ms) ==
    JVA_flow_constraints(p, s, ms) /\ JVA_storage_deviation_constraints(p, s, ms)

JVA_no_values ==
    [Q |-> <<>>, delivery |-> <<>>, release |-> <<>>, storage |-> <<>>,
     storage_plus |-> <<>>, storage_minus |-> <<>>]

reservoir_links == {l \in jva_links : l[1] \in storage_nodes}
canal_nodes == non_storage_nodes \ demand_nodes

LinkKeys(ls, m) == {<<l[1], l[2], m>> : l \in ls}

\* The values of month m that extend the point t, found variable group by
\* variable group: each group is kept when the constraints it completes hold.
JVA_month_points(p, t, m, ms) ==
    LET s1 == {s \in Assign({t}, "release", storage_nodes \X {m},
                            [k \in storage_nodes \X {m} |->
                                {v \in Values : v <= max_release[k[1]]}]) :
                  \A n \in storage_nodes : JVA_res_max_release(p, s, n, m)}
        s2 == {s \in Assign(s1, "Q", LinkKeys(reservoir_links, m),
                            [k \in LinkKeys(reservoir_links, m) |-> Values]) :
                  \A n \in storage_nodes : JVA_m_mass_balance_storage(p, s, n, m)}
        s3 == {s \in Assign(s2, "delivery", canal_nodes \X {m},
                            [k \in canal_nodes \X {m} |-> {v \in Values : v <= p.demand[k]}]) :
                  \A n \in canal_nodes : JVA_delivery_capacity(p, s, n, m)}
        s4 == {s \in Assign(s3, "Q", LinkKeys(jva_links \ reservoir_links, m),
                            [k \in LinkKeys(jva_links \ reservoir_links, m) |-> Values]) :
                  \A n \in canal_nodes : JVA_m_mass_balance_demand(p, s, n, m)}
        s5 == {s \in Assign(s4, "delivery", demand_nodes \X {m},
                            [k \in demand_nodes \X {m} |-> {v \in Values : v <= p.demand[k]}]) :
                  \A n \in demand_nodes :
                     /\ JVA_m_mass_balance_demand(p, s, n, m)
                     /\ JVA_delivery_capacity(p, s, n, m)
                     /\ \A o \in ms :
                           /\ JVA_smooth_deficit_month_lesser_v2(p, s, n, m, o)
                           /\ JVA_smooth_deficit_month_greater_v2(p, s, n, m, o)
                           /\ JVA_smooth_deficit_month_lesser_v2(p, s, n, o, m)
                           /\ JVA_smooth_deficit_month_greater_v2(p, s, n, o, m)
                     /\ \A o \in SeqToSet(p.past_months) :
                           JVA_smooth_deficit_past_month_greater_v2(p, s, n, m, o)}
        s6 == {s \in Assign(s5, "storage", storage_nodes \X {m},
                            [k \in storage_nodes \X {m} |->
                                {v \in Values : v <= live_storage_capacity[k[1]]}]) :
                  \A n \in storage_nodes :
                     /\ JVA_res_balance_storage(p, s, n, m)
                     /\ JVA_res_maximum_storage(p, s, n, m)}
    IN Assign(s6, "delivery", storage_nodes \X {m},
              [k \in storage_nodes \X {m} |-> 0..MaxSpill])

\* The flows, deliveries, releases and storage that satisfy their constraints
\* on the first k months of the horizon, found month by month.
RECURSIVE JVA_points(_, _)
JVA_points(p, k) ==
    IF k = 0 THEN {JVA_no_values}
    ELSE LET m  == p.rem_months[k]
             ms == {p.rem_months[j] : j \in 1..k}
         IN {s \in UNION {JVA_month_points(p, t, m, ms) : t \in JVA_points(p, k - 1)} :
                JVA_flow_constraints(p, s, ms)}

\* The points that satisfy every constraint: the storage deviations are
\* found once the storage is.
JVA_feasible(p) ==
    LET ms   == SeqToSet(p.rem_months)
        keys == storage_nodes \X ms
    IN {s \in {[t EXCEPT !.storage_minus = minus,
                         !.storage_plus  = [k \in keys |->
                                               t.storage[k] - p.storage_avg[k] + minus[k]]] :
                  t \in JVA_points(p, Len(p.rem_months)), minus \in [keys -> Values]} :
           /\ \A k \in keys : s.storage_plus[k] \in Values
           /\ JVA_storage_deviation_constraints(p, s, ms)}

\* The objective, the share of the demand that is not delivered plus the
\* share of the average storage that is missing, brought to the common
\* denominator (total demand) * (total average storage).
JVA_objective_function(p, s) ==
    LET keys(ns) == ns \X SeqToSet(p.rem_months)
        deficit  == Sum([k \in keys(demand_nodes) |-> p.demand[k] - s.delivery[k]],
                        keys(demand_nodes))
        demand   == Sum([k \in keys(demand_nodes) |-> p.demand[k]], keys(demand_nodes))
        minus    == Sum([k \in keys(storage_nodes) |-> s.storage_minus[k]],
                        keys(storage_nodes))
        average  == Sum([k \in keys(storage_nodes) |-> p.storage_avg[k]],
                        keys(storage_nodes))
    IN deficit * average + minus * demand

\* What an optimal solve can return.
JVA_solutions(F, p) == Minimal(F, [s \in F |-> JVA_objective_function(p, s)])

----------------------------------------------------------------------------
(* WAJ.set_allocation_forecast: network, parameters, constraints *)

\* The part of the municipal network the model keeps: the governorate maan
\* sends water over the junction karak_jnc to the governorate amman.
waj_nodes == {"maan", "karak_jnc", "amman"}
waj_demand_nodes == {"maan", "amman"}
non_demand_nodes == waj_nodes \ waj_demand_nodes
waj_links == {<<"maan", "karak_jnc">>, <<"karak_jnc", "amman">>}

waj_incoming_links(n) == {l \in waj_links : l[2] = n}
waj_outgoing_links(n) == {l \in waj_links : l[1] = n}

StartYear == 2015
year == StartYear + year_of(idx)

waj_demand_forecast ==
    [n \in waj_demand_nodes |-> [m \in Months |-> IF n = "amman" /\ m = 2 THEN 3 ELSE 2]]
extraction_cap == [n \in waj_nodes |-> IF n = "maan" THEN 1 ELSE 0]
yearly_max_groundwater_pumping ==
    [n \in waj_nodes |-> IF n = "maan" THEN MonthsPerYear ELSE 0]
upper_flow == [l \in waj_links |-> 1]
dilution == 1

WAJ_model(yr) ==
    [year     |-> yr,
     demand   |-> [k \in waj_demand_nodes \X Months |-> waj_demand_forecast[k[1]][k[2]]],
     max_pump |-> yearly_max_groundwater_pumping,
     extr_cap |-> [k \in waj_nodes \X Months |-> extraction_cap[k[1]]]]

WAJ_link_inflow(s, n, m) ==
    Sum([l \in waj_incoming_links(n) |-> s.Q[<<l[1], l[2], m>>]], waj_incoming_links(n))

WAJ_link_outflow(s, n, m) ==
    Sum([l \in waj_outgoing_links(n) |-> s.Q[<<l[1], l[2], m>>]], waj_outgoing_links(n))

\* The bounds of the variables P and deficit.
WAJ_extr_capacity_constraint(p, s, n, m) ==
    0 <= s.P[<<n, m>>] /\ s.P[<<n, m>>] <= p.extr_cap[<<n, m>>]

WAJ_deficit_constraint(p, s, n, m) ==
    /\ -p.demand[<<n, m>>] <= 2 * s.deficit[<<n, m>>]
    /\ s.deficit[<<n, m>>] <= p.demand[<<n, m>>]

WAJ_flow_capacity(p, s, l, m) == s.Q[<<l[1], l[2], m>>] <= upper_flow[l]

WAJ_mass_balance_demand(p, s, n, m) ==
    (WAJ_link_inflow(s, n, m) + s.P[<<n, m>>] + s.deficit[<<n, m>>])
        - (WAJ_link_outflow(s, n, m) + p.demand[<<n, m>>]) = 0

WAJ_mass_balance(p, s, n, m) ==
    WAJ_link_inflow(s, n, m) + s.P[<<n, m>>] - WAJ_link_outflow(s, n, m) = 0

\* GW_cap_scale 'gov': the pumping of a node over the year stays within its
\* yearly maximum.
WAJ_extraction_limit(p, s, n) ==
    Sum([m \in Months |-> s.P[<<n, m>>]], Months) <= p.max_pump[n]

WAJ_dilution(p, s, m) ==
    WAJ_link_inflow(s, "amman", m) + s.P[<<"amman", m>>]
        >= dilution * s.Q[<<"maan", "karak_jnc", m>>]

WAJ_smooth_transfer_sup(p, s, l, m) ==
    IF p.year = 2013 THEN s.Q[<<l[1], l[2], m>>] >= 0
    ELSE 4 * s.Q[<<l[1], l[2], next_month(m)>>] <= 5 * s.Q[<<l[1], l[2], m>>]

WAJ_smooth_transfer_low(p, s, l, m) ==
    IF p.year = 2013 THEN s.Q[<<l[1], l[2], m>>] >= 0
    ELSE 4 * s.Q[<<l[1], l[2], next_month(m)>>] >= 3 * s.Q[<<l[1], l[2], m>>]

WAJ_smooth_extraction_sup(p, s, n, m) ==
    IF n = "amman" THEN 10 * s.P[<<n, next_month(m)>>] <= 11 * s.P[<<n, m>>]
    ELSE IF n = "maan" /\ p.year = 2013 THEN s.P[<<n, m>>] >= 0
    ELSE 10 * s.P[<<n, next_month(m)>>] <= 13 * s.P[<<n, m>>]

WAJ_smooth_extraction_low(p, s, n, m) ==
    IF n = "amman" THEN 10 * s.P[<<n, next_month(m)>>] >= 9 * s.P[<<n, m>>]
    ELSE IF n = "maan" /\ p.year = 2013 THEN s.P[<<n, m>>] >= 0
    ELSE 10 * s.P[<<n, next_month(m)>>] >= 7 * s.P[<<n, m>>]

\* Every constraint of the model whose indices lie in the months ms.
WAJ_constraints(p, s, ms) ==
    /\ \A m \in ms :
          /\ \A l \in waj_links : WAJ_flow_capacity(p, s, l, m)
          /\ \A n \in waj_nodes : WAJ_extr_capacity_constraint(p, s, n, m)
          /\ \A n \in waj_demand_nodes :
                /\ WAJ_deficit_constraint(p, s, n, m)
                /\ WAJ_mass_balance_demand(p, s, n, m)
          /\ \A n \in non_demand_nodes : WAJ_mass_balance(p, s, n, m)
          /\ WAJ_dilution(p, s, m)
          /\ next_month(m) \in ms =>
                /\ \A l \in waj_links : /\ WAJ_smooth_transfer_sup(p, s, l, m)
                                        /\ WAJ_smooth_transfer_low(p, s, l, m)
                /\ \A n \in waj_nodes : /\ WAJ_smooth_extraction_sup(p, s, n, m)
                                        /\ WAJ_smooth_extraction_low(p, s, n, m)
    /\ ms = Months => \A n \in waj_nodes : WAJ_extraction_limit(p, s, n)

WAJ_no_values == [Q |-> <<>>, P |-> <<>>, deficit |-> <<>>]

WAJ_month_points(p, t, m) ==
    LET s1 == {s \in Assign({t}, "Q", LinkKeys(waj_links, m),
                            [k \in LinkKeys(waj_links, m) |->
                                {v \in Values : v <= upper_flow[<<k[1], k[2]>>]}]) :
                  \A l \in waj_links : WAJ_flow_capacity(p, s, l, m)}
        s2 == {s \in Assign(s1, "P", waj_nodes \X {m},
                            [k \in waj_nodes \X {m} |-> {v \in Values : v <= p.extr_cap[k]}]) :
                  /\ \A n \in waj_nodes : WAJ_extr_capacity_constraint(p, s, n, m)
                  /\ \A n \in non_demand_nodes : WAJ_mass_balance(p, s, n, m)
                  /\ WAJ_dilution(p, s, m)}
    IN {s \in Assign(s2, "deficit", waj_demand_nodes \X {m},
                     [k \in waj_demand_nodes \X {m} |-> -MaxValue..MaxValue]) :
           \A n \in waj_demand_nodes :
              /\ WAJ_deficit_constraint(p, s, n, m)
              /\ WAJ_mass_balance_demand(p, s, n, m)}

RECURSIVE WAJ_points(_, _)
WAJ_points(p, k) ==
    IF k = 0 THEN {WAJ_no_values}
    ELSE {s \in UNION {WAJ_month_points(p, t, k) : t \in WAJ_points(p, k - 1)} :
             WAJ_constraints(p, s, 1..k)}

WAJ_feasible(p) == WAJ_points(p, MonthsPerYear)

----------------------------------------------------------------------------
(* SpecAlloc: the period loop with the models solved in numbers.  calls    *)
(* holds the call made last: the state its model was built from, the       *)
(* model's parameters and the instance the solver filled.                  *)

reservoirs == {"wehdah_res", "talal_res"}

\* The inflow a reservoir receives in a month, read from the hydrology input.
observed_inflow(n) == IF n = "wehdah_res" THEN 2 ELSE talal_inflow_averages[1]

InitAlloc ==
    /\ idx = 0
    /\ pc = "set_timestep"
    /\ node = [n \in reservoirs |->
                  [volume |-> 0, release |-> 0, inflow |-> 0, evap |-> 0,
                   history_volume |-> 0, history_release |-> 0]]
    /\ link_flow = [l \in jva_links |-> 0]
    /\ cwa = [wehdah_release |-> 0,
              wehdah_release_history |-> [m \in Months |-> 0],
              storage_solved |-> <<>>]
    /\ jva = [node_delivery |-> [n \in demand_nodes |-> 0],
              node_allocations_history |-> [n \in demand_nodes |-> [m \in Months |-> 0]]]
    /\ waj = [allocation_forecast |-> EmptyDict,
              pumping_forecast    |-> EmptyDict,
              deficit_forecast    |-> EmptyDict,
              transfer_forecast   |-> EmptyDict]
    /\ calls = <<>>
    /\ phases = NoPhases
    /\ gw = LeftOut
    /\ market = LeftOut
    /\ sim = LeftOut

\* network.set_timestep: Reservoir.setup sets the volume to the average of
\* the month at the first timestep and the evaporation in every timestep;
\* the inflow of the month is read from the inputs.
Reservoir_setup ==
    /\ pc = "set_timestep"
    /\ node' = [n \in reservoirs |->
                   [node[n] EXCEPT
                      !.volume = IF idx = 0 THEN volume_averages[n][month] ELSE @,
                      !.evap   = evap_averages[n][month],
                      !.inflow = observed_inflow(n)]]
    /\ calls' = <<>>
    /\ pc' = "cwa_forecast"
    /\ UNCHANGED <<idx, link_flow, cwa, jva, waj, phases, gw, market, sim>>

\* CWA.set_allocation with a solve that ends optimal.
CWA_set_allocation ==
    /\ pc = "cwa_forecast"
    /\ LET nd == node["wehdah_res"]
           p  == CWA_model(nd, cwa, idx, month, first_year)
           F  == CWA_feasible(p)
       IN IF F = {}
          THEN /\ pc' = "solve_failed"
               /\ UNCHANGED <<node, cwa, calls>>
          ELSE \E s \in CWA_solutions(F, p) :
               /\ node' = [node EXCEPT
                             !["wehdah_res"].volume  = s.storage[volume_month(idx, month)],
                             !["wehdah_res"].release = s.release[month]]
               /\ cwa' = [cwa EXCEPT !.wehdah_release = s.release[month],
                                      !.storage_solved = s.storage]
               /\ calls' = <<[inst |-> "cwa", observed |-> nd, model |-> p, instance |-> s]>>
               /\ pc' = "jva_forecast"
    /\ UNCHANGED <<idx, link_flow, jva, waj, phases, gw, market, sim>>

\* JVA.set_allocation_forecast with a solve that ends optimal.
JVA_set_allocation_forecast ==
    /\ pc = "jva_forecast"
    /\ LET nd == node["talal_res"]
           p  == JVA_model(nd, jva, idx, month, first_year)
           F  == JVA_feasible(p)
       IN IF F = {}
          THEN /\ pc' = "solve_failed"
               /\ UNCHANGED <<node, link_flow, jva, calls>>
          ELSE \E s \in JVA_solutions(F, p) :
               /\ node' = [node EXCEPT
                             !["talal_res"].volume =
                                 IF volume_month(idx, month) \in SeqToSet(p.rem_months)
                                 THEN s.storage[<<"talal_res", volume_month(idx, month)>>]
                                 ELSE @,
                             !["talal_res"].release = s.release[<<"talal_res", month>>]]
               /\ link_flow' = [l \in jva_links |-> s.Q[<<l[1], l[2], month>>]]
               /\ jva' = [node_delivery |-> [n \in demand_nodes |-> s.delivery[<<n, month>>]],
                          node_allocations_history |->
                              [n \in demand_nodes |->
                                  [jva.node_allocations_history[n] EXCEPT
                                      ![month] = s.delivery[<<n, month>>]]]]
               /\ calls' = <<[inst |-> "jva", observed |-> nd, model |-> p, instance |-> s]>>
               /\ pc' = "waj_forecast"
    /\ UNCHANGED <<idx, cwa, waj, phases, gw, market, sim>>

\* WAJForecastEngine.run with a solve that ends optimal: in January the
\* forecasts are emptied and filled from the instance.
WAJ_forecast_in_numbers ==
    /\ pc = "waj_forecast"
    /\ IF month = 1
       THEN LET p == WAJ_model(year)
                F == WAJ_feasible(p)
            IN IF F = {}
               THEN /\ pc' = "solve_failed"
                    /\ UNCHANGED <<waj, calls>>
               ELSE \E s \in F :
                    /\ waj' = [allocation_forecast |->
                                   [k \in waj_demand_nodes \X Months |->
                                       p.demand[k] - s.deficit[k]],
                               pumping_forecast  |-> s.P,
                               deficit_forecast  |-> s.deficit,
                               transfer_forecast |-> s.Q]
                    /\ calls' = <<[inst |-> "waj", observed |-> node["talal_res"],
                                   model |-> p, instance |-> s]>>
                    /\ pc' = "post_process"
       ELSE /\ pc' = "post_process"
            /\ UNCHANGED <<waj, calls>>
    /\ UNCHANGED <<idx, node, link_flow, cwa, jva, phases, gw, market, sim>>

\* network.post_process: every component appends its properties to its
\* history; then the loop moves to the next timestep.
post_process_history ==
    /\ pc = "post_process"
    /\ node' = [n \in reservoirs |->
                   [node[n] EXCEPT !.history_volume  = node[n].volume,
                                   !.history_release = node[n].release]]
    /\ cwa' = [cwa EXCEPT !.wehdah_release_history[month] = cwa.wehdah_release]
    /\ calls' = <<>>
    /\ IF idx + 1 < MaxTimesteps
       THEN idx' = idx + 1 /\ pc' = "set_timestep"
       ELSE idx' = idx /\ pc' = "finished"
    /\ UNCHANGED <<link_flow, jva, waj, phases, gw, market, sim>>

NextAlloc ==
    \/ Reservoir_setup
    \/ CWA_set_allocation
    \/ JVA_set_allocation_forecast
    \/ WAJ_forecast_in_numbers
    \/ post_process_history

SpecAlloc == InitAlloc /\ [][NextAlloc]_vars

(***************************************************************************)
(* Properties of the allocation models, checked under SpecAlloc.  A call   *)
(* in calls holds the node as the call found it (observed), the parameters  *)
(* of the model (model) and the solution returned (instance).              *)
(***************************************************************************)

ReservoirCalls == {k \in 1..Len(calls) : calls[k].inst \in {"cwa", "jva"}}

\* The storage variable of the anchor month in the solution of call c.
AnchorStorage(c) ==
    IF c.inst = "cwa" THEN c.instance.storage[c.model.cur]
    ELSE c.instance.storage[<<"talal_res", c.model.cur>>]

InitialInflow(c) ==
    IF c.inst = "cwa" THEN wehdah_inflow_initial ELSE res_inflow_initial["talal_res"]

\* C6 as stated: in every allocation model of every period, the storage of
\* the anchor month equals the volume observed at the storage node.
C6_AnchorStorageIsObservedVolume ==
    \A k \in ReservoirCalls : AnchorStorage(calls[k]) = calls[k].observed.volume

\* C6 amended: the storage of the anchor month equals the observed volume in
\* the first period and from the third period on (where the observed volume
\* is the last recorded one); in the second period it equals the observed
\* volume less the last recorded release plus the fixed initial inflow.
C6_AnchorStorageIsInitialStorage ==
    \A k \in ReservoirCalls :
        LET c == calls[k]
        IN /\ c.model.idx # 1 => AnchorStorage(c) = c.observed.volume
           /\ c.model.idx >= 2 => c.observed.history_volume = c.observed.volume
           /\ c.model.idx = 1 =>
                 AnchorStorage(c) =
                     c.observed.volume - c.observed.history_release + InitialInflow(c)

C6_Witness ==
    \E k \in ReservoirCalls :
        /\ calls[k].model.idx = 1
        /\ calls[k].observed.history_release # InitialInflow(calls[k])
        /\ AnchorStorage(calls[k]) # calls[k].observed.volume

GrossLinkInflow(Q, links, m) == Sum([l \in links |-> Q[<<l[1], l[2], m>>]], links)

\* C8 as stated: after a successful solve, at every governed non-storage
\* node and every month of the horizon, total link inflow plus extraction
\* plus deficit minus total link outflow minus delivery minus exogenous
\* outflow is zero.  A term the model of an institution does not have is
\* zero, and the delivery of a node with a deficit variable is its demand.
C8_MassBalanceAsStated ==
    \A k \in 1..Len(calls) :
        LET c == calls[k]
            s == c.instance
        IN /\ c.inst = "jva" =>
                 \A n \in non_storage_nodes : \A m \in SeqToSet(c.model.rem_months) :
                     GrossLinkInflow(s.Q, incoming_links(n), m)
                        - GrossLinkInflow(s.Q, outgoing_links(n), m)
                        - s.delivery[<<n, m>>] - c.model.exog_outflow[<<n, m>>] = 0
           /\ c.inst = "waj" =>
                 \A n \in waj_nodes : \A m \in Months :
                     GrossLinkInflow(s.Q, waj_incoming_links(n), m) + s.P[<<n, m>>]
                        + (IF n \in waj_demand_nodes THEN s.deficit[<<n, m>>] ELSE 0)
                        - GrossLinkInflow(s.Q, waj_outgoing_links(n), m)
                        - (IF n \in waj_demand_nodes THEN c.model.demand[<<n, m>>] ELSE 0) = 0

\* C8 amended: at every non-storage node of the valley model and every month
\* of the horizon, link inflow net of the conveyance loss plus exogenous
\* inflow minus link outflow minus delivery minus exogenous outflow is zero;
\* at every demand node of the utility model and every month, link inflow
\* plus extraction plus deficit minus link outflow minus demand is zero, and
\* at its other nodes link inflow plus extraction minus link outflow is zero.
C8_MassBalanceOfTheModels ==
    \A k \in 1..Len(calls) :
        LET c == calls[k]
            s == c.instance
        IN /\ c.inst = "jva" =>
                 \A n \in non_storage_nodes : \A m \in SeqToSet(c.model.rem_months) :
                     2 * GrossLinkInflow(s.Q, incoming_links(n), m)
                        - Sum([l \in incoming_links(n) |->
                                  loss_halves(l) * s.Q[<<l[1], l[2], m>>]], incoming_links(n))
                        + 2 * c.model.inflow[<<n, m>>]
                        - 2 * GrossLinkInflow(s.Q, outgoing_links(n), m)
                        - 2 * s.delivery[<<n, m>>]
                        - 2 * c.model.exog_outflow[<<n, m>>] = 0
           /\ c.inst = "waj" =>
                 \A n \in waj_nodes : \A m \in Months :
                     GrossLinkInflow(s.Q, waj_incoming_links(n), m) + s.P[<<n, m>>]
                        + (IF n \in waj_demand_nodes THEN s.deficit[<<n, m>>] ELSE 0)
                        - GrossLinkInflow(s.Q, waj_outgoing_links(n), m)
                        - (IF n \in waj_demand_nodes THEN c.model.demand[<<n, m>>] ELSE 0) = 0

C8_Witness ==
    \E k \in 1..Len(calls) :
        /\ calls[k].inst = "jva"
        /\ \E l \in jva_links : \E m \in SeqToSet(calls[k].model.rem_months) :
              /\ l[2] \in non_storage_nodes
              /\ loss_halves(l) > 0
              /\ calls[k].instance.Q[<<l[1], l[2], m>>] > 0

\* C9: for every storage node and every month t of the horizon after the
\* anchor month, the wrap from December to January included, storage[t] =
\* storage[t-1] - release[t-1] - evaporation[t-1] - seepage[t-1] + inflow[t-1]
\* + spill adjustment[t-1].  The spill adjustment is minus the spill at the
\* Wehdah reservoir (which has no seepage term) and, in the valley model, the
\* net link inflow less the delivery at the reservoir.
C9_StorageTransition ==
    \A k \in ReservoirCalls :
        LET c == calls[k]
            s == c.instance
            p == c.model
        IN \A t \in SeqToSet(p.rem_months) \ {p.cur} :
              LET q == IF t = 1 THEN December ELSE t - 1
              IN IF c.inst = "cwa"
                 THEN s.storage[t] =
                         s.storage[q] - s.release[q] - p.evap[q] - 0 + p.inflow[q]
                            + (0 - s.spill[q])
                 ELSE \A n \in storage_nodes :
                         2 * s.storage[<<n, t>>] =
                             2 * (s.storage[<<n, q>>] - s.release[<<n, q>>]
                                  - p.evap[<<n, q>>] - p.seepage[<<n, q>>]
                                  + p.inflow[<<n, q>>])
                               + (JVA_net_link_inflow_x2(s, n, q) - 2 * s.delivery[<<n, q>>])

C9_Witness ==
    \E k \in ReservoirCalls :
        LET p == calls[k].model
        IN /\ calls[k].inst = "cwa"
           /\ p.cur # 1
           /\ 1 \in SeqToSet(p.rem_months)
           /\ calls[k].instance.release[December] > 0
           /\ \E t \in SeqToSet(p.rem_months) \ {p.cur} :
                 p.evap[IF t = 1 THEN December ELSE t - 1] > 0

\* The demand and the delivery of call c at demand node n in month m.
Demand(c, n, m) == IF c.inst = "cwa" THEN c.model.demand[m] ELSE c.model.demand[<<n, m>>]
Delivery(c, n, m) ==
    IF c.inst = "cwa" THEN c.instance.release[m] ELSE c.instance.delivery[<<n, m>>]
DemandNodes(c) == IF c.inst = "cwa" THEN {"wehdah_res"} ELSE demand_nodes

\* The deficit ratio of month m1 is at most 1.1 times and at least 0.9 times
\* that of month m2 at node n, whenever both demands are nonzero.
WithinTenPercent(c, n, m1, m2) ==
    LET d1 == Demand(c, n, m1)
        d2 == Demand(c, n, m2)
        r1 == (d1 - Delivery(c, n, m1)) * d2
        r2 == (d2 - Delivery(c, n, m2)) * d1
    IN (d1 # 0 /\ d2 # 0) => (10 * r1 <= 11 * r2 /\ 10 * r1 >= 9 * r2)

\* C10 as stated: for every demand node and every ordered pair of distinct
\* months of the horizon with nonzero demands, every accepted solution keeps
\* the deficit ratio of the first month within 0.9 and 1.1 times that of the
\* second.
C10_SmoothingAtEveryDemandNode ==
    \A k \in ReservoirCalls :
        \A n \in DemandNodes(calls[k]) :
            \A m1, m2 \in SeqToSet(calls[k].model.rem_months) :
                m1 # m2 => WithinTenPercent(calls[k], n, m1, m2)

\* C10 amended: the band holds for every demand node other than the stage
\* office so10, which the valley model leaves out of the smoothing over
\* months.
C10_SmoothingExceptSo10 ==
    \A k \in ReservoirCalls :
        \A n \in DemandNodes(calls[k]) \ {"so10"} :
            \A m1, m2 \in SeqToSet(calls[k].model.rem_months) :
                m1 # m2 => WithinTenPercent(calls[k], n, m1, m2)

C10_Witness ==
    \E k \in ReservoirCalls :
        /\ calls[k].inst = "jva"
        /\ \E m1, m2 \in SeqToSet(calls[k].model.rem_months) :
              /\ m1 # m2
              /\ Demand(calls[k], "so1", m1) # 0 /\ Demand(calls[k], "so1", m2) # 0
              /\ Delivery(calls[k], "so1", m1) < Demand(calls[k], "so1", m1)
              /\ ~WithinTenPercent(calls[k], "so10", m1, m2)

\* The deficit a call stored for past month pm at node n, as <<numerator,
\* denominator>>.
PastDeficit(c, n, pm) ==
    IF c.inst = "cwa" THEN c.model.past_def[pm] ELSE c.model.past_def[<<n, pm>>]

\* C11: in every period that has elapsed months of the current year, for
\* every demand node, every month of the horizon and every elapsed month, the
\* deficit ratio of the horizon month is at most 1.1 times and at least 0.9
\* times the stored past deficit of the elapsed month.
C11_PastDeficitBand ==
    \A k \in ReservoirCalls :
        LET c == calls[k]
        IN \A n \in DemandNodes(c) :
              \A m \in SeqToSet(c.model.rem_months) :
                 \A pm \in SeqToSet(c.model.past_months) :
                    LET d  == Demand(c, n, m)
                        r  == (d - Delivery(c, n, m)) * PastDeficit(c, n, pm)[2]
                        pd == PastDeficit(c, n, pm)[1] * d
                    IN d # 0 => (10 * r <= 11 * pd /\ 10 * r >= 9 * pd)

\* The part of C11 the models do hold: the lower bound, at every demand node
\* other than so10.
C11_PastDeficitLowerBound ==
    \A k \in ReservoirCalls :
        LET c == calls[k]
        IN \A n \in DemandNodes(c) \ {"so10"} :
              \A m \in SeqToSet(c.model.rem_months) :
                 \A pm \in SeqToSet(c.model.past_months) :
                    LET d  == Demand(c, n, m)
                        r  == (d - Delivery(c, n, m)) * PastDeficit(c, n, pm)[2]
                        pd == PastDeficit(c, n, pm)[1] * d
                    IN d # 0 => 10 * r >= 9 * pd

\* The upper bound alone, at the nodes the lower bound is kept at.
C11_PastDeficitUpperBound ==
    \A k \in ReservoirCalls :
        LET c == calls[k]
        IN \A n \in DemandNodes(c) \ {"so10"} :
              \A m \in SeqToSet(c.model.rem_months) :
                 \A pm \in SeqToSet(c.model.past_months) :
                    LET d  == Demand(c, n, m)
                        r  == (d - Delivery(c, n, m)) * PastDeficit(c, n, pm)[2]
                        pd == PastDeficit(c, n, pm)[1] * d
                    IN d # 0 => 10 * r <= 11 * pd

----------------------------------------------------------------------------
(* GWResponseEngine: the response matrix.                                  *)
(*                                                                         *)
(* Specification SpecGW follows the groundwater nodes and the response     *)
(* engine through the periods of a run: every period the nodes are set up, *)
(* the pumping of the period is written to them and the engine runs once.  *)
(* Heads and unit responses are counted in halves of a metre, so that a    *)
(* unit response of 0.5 is the integer 1.  Pumping is counted in the units *)
(* of the node property baseline_pumping; the division by 0.01 is the      *)
(* multiplication by 100, and the pumping values are multiples of 4 where  *)
(* the engine takes three quarters or one quarter of them.  The head       *)
(* arrays of the source have 1021 columns; here they have head_length.     *)

head_length == MaxTimesteps + 1
head_times == 0..(head_length - 1)

\* The groundwater nodes: one node without a special rule and the four
\* nodes the engine names.
gw_nodes == {"110101_urb_01", "210401_ag_02", "130104_urb_01", "130104_urb_02",
             "330103_ag_01"}

matrix_position ==
    [n \in gw_nodes |->
        CASE n = "110101_urb_01" -> 0
          [] n = "210401_ag_02"  -> 1
          [] n = "130104_urb_01" -> 2
          [] n = "130104_urb_02" -> 3
          [] n = "330103_ag_01"  -> 4]

gw_rows == {matrix_position[n] : n \in gw_nodes}

baseline_pumping == [n \in gw_nodes |-> IF n = "110101_urb_01" THEN 10 ELSE 8]

baseline_heads == [r \in gw_rows |-> [t \in head_times |-> 2 * (500 - 10 * r - t)]]

\* Two response matrices dd[source][location][lag]: one whose only nonzero
\* coefficient is -0.5 at lag 0 for the first node pumping on itself, and
\* one of drawdowns that fade with the lag.
dd_single ==
    [i \in gw_rows |-> [j \in gw_rows |-> [k \in head_times |->
        IF i = 0 /\ j = 0 /\ k = 0 THEN 0 - 1 ELSE 0]]]

dd_drawdown ==
    [i \in gw_rows |-> [j \in gw_rows |-> [k \in head_times |->
        IF i = j THEN (IF k = 0 THEN 4 ELSE 2)
        ELSE IF k <= 1 THEN 1 ELSE 0]]]

\* parameters.gw['gw_response_factor'], a number of the parameter workbook.
gw_response_factors == {1, 2}

\* The pumping the delivery of a period leaves at the nodes.
pumping_of_period ==
    { [n \in gw_nodes |-> baseline_pumping[n]],
      [n \in gw_nodes |-> IF n = "110101_urb_01" THEN 12 ELSE baseline_pumping[n]],
      [n \in gw_nodes |-> IF n = "110101_urb_01" THEN 10
                           ELSE IF n = "130104_urb_02" THEN 8 ELSE 12] }

\* Step 1: the unit pumping of node n, with the rules for the named nodes.
unit_pumping(nd, n) ==
    IF n = "210401_ag_02" \/ n = "330103_ag_01" THEN 0
    ELSE IF n = "130104_urb_01"
    THEN ((3 * nd[n].pumping) \div 4 - baseline_pumping[n]) * 100
    ELSE IF n = "130104_urb_02"
    THEN ((nd[n].pumping + nd["130104_urb_01"].pumping \div 4) - baseline_pumping[n]) * 100
    ELSE (nd[n].pumping - baseline_pumping[n]) * 100

\* The contraction 'ijk,il->ljk' of dd, from lag 0 to lag last, with the
\* pumping column scaled by the response factor: for location j and lag k
\* the sum over the sources i.
einsum(dd, pumping, factor, j, k) ==
    Sum([i \in gw_rows |-> dd[i][j][k] * (pumping[i] * factor)], gw_rows)

\* A pass that lays the response from the first column on in every period.
addhead_from_first_column(dd, pumping, factor, timestep) ==
    [j \in gw_rows |-> [t \in head_times |-> (0 - 1) * einsum(dd, pumping, factor, j, t)]]

\* A pass that takes dd as the change of the head itself.
addhead_unsigned(dd, pumping, factor, timestep) ==
    [j \in gw_rows |-> [t \in head_times |->
        IF t < timestep - 1 THEN 0
        ELSE einsum(dd, pumping, factor, j, t - (timestep - 1))]]

\* A pass that lays the response from the column after the current
\* timestep on, so that the month after shows the response without a lag.
addhead_from_next_column(dd, pumping, factor, timestep) ==
    [j \in gw_rows |-> [t \in head_times |->
        IF t < timestep THEN 0
        ELSE (0 - 1) * einsum(dd, pumping, factor, j, t - timestep)]]

\* Step 2: the drawdowns of the pumping of the current timestep.
addhead(dd, pumping, factor, timestep) ==
    [j \in gw_rows |-> [t \in head_times |->
        IF timestep = 1
        THEN (0 - 1) * einsum(dd, pumping, factor, j, t)
        ELSE IF t < timestep - 1 THEN 0
        ELSE (0 - 1) * einsum(dd, pumping, factor, j, t - (timestep - 1))]]

\* _gw_node_properties of a node: the top and the bottom of the aquifer and
\* the bias correction, in the unit of the heads.
gw_top == [n \in gw_nodes |-> baseline_heads[matrix_position[n]][0] + 200]
gw_bot == [n \in gw_nodes |-> gw_top[n] - 1000]
bias_correction == [n \in gw_nodes |-> IF n = "130104_urb_02" THEN 0 - 20 ELSE 0]

\* parameters.gw['gw_reduction_start'], in tenths of the aquifer thickness.
gw_reduction_starts == {4, 5}

\* A fraction is kept as <<numerator, denominator>>.
Zero == <<0, 1>>
One == <<1, 1>>

\* The dry state a setup would leave if the flag of an earlier period were
\* not looked at: dry and reduced by the head of the period alone.
Groundwater_dry_by_head(n, head_bias_corr, permanently_dry, gw_reduction_start) ==
    LET thickness == gw_top[n] - gw_bot[n]
        dry_level == 10 * gw_bot[n] + 2 * thickness
        start     == 10 * gw_bot[n] + gw_reduction_start * thickness
        below_dry == 10 * head_bias_corr < dry_level
        reduced   == 10 * head_bias_corr < start
        exhausted == reduced /\ 10 * head_bias_corr - dry_level <= 0
    IN [check_dry |-> IF below_dry THEN "True" ELSE "False",
        permanently_dry |-> IF below_dry \/ exhausted THEN 1 ELSE permanently_dry,
        capacity_reduction_factor |->
            IF ~reduced THEN One
            ELSE IF exhausted THEN Zero
            ELSE <<10 * head_bias_corr - dry_level, start - dry_level>>]

\* Groundwater.setup, the dry check and the capacity reduction factor: dry
\* below bot + 0.20 (top - bot); the factor falls from 1 at bot +
\* gw_reduction_start (top - bot) to 0 at the dry level; a node that is, or
\* ever was, at or below the dry level is flagged permanently dry, and a
\* flagged node is dry with factor 0.  Levels are compared tenfold.
Groundwater_dry(n, head_bias_corr, permanently_dry, gw_reduction_start) ==
    LET thickness == gw_top[n] - gw_bot[n]
        dry_level == 10 * gw_bot[n] + 2 * thickness
        start     == 10 * gw_bot[n] + gw_reduction_start * thickness
        below_dry == 10 * head_bias_corr < dry_level
        reduced   == 10 * head_bias_corr < start
        exhausted == reduced /\ 10 * head_bias_corr - dry_level <= 0
        flag      == IF below_dry \/ exhausted THEN 1 ELSE permanently_dry
    IN [check_dry |-> IF flag > 0 \/ below_dry THEN "True" ELSE "False",
        permanently_dry |-> flag,
        capacity_reduction_factor |->
            IF flag > 0 THEN Zero
            ELSE IF ~reduced THEN One
            ELSE <<10 * head_bias_corr - dry_level, start - dry_level>>]

InitGW ==
    /\ idx = 0
    /\ pc = "gw_setup"
    /\ node = [n \in gw_nodes |->
                  [pumping |-> 0, head |-> 0, head_bias_corr |-> 0, lift |-> 0,
                   check_dry |-> "None", permanently_dry |-> 0,
                   capacity_reduction_factor |-> Zero,
                   head_calc |-> baseline_heads[matrix_position[n]]]]
    /\ \E dd \in {dd_single, dd_drawdown}, factor \in gw_response_factors,
          start \in gw_reduction_starts :
          gw = [head |-> baseline_heads,
                pumping |-> [r \in gw_rows |-> 0],
                pumping_of_pass |-> <<>>,
                dd |-> dd,
                gw_response_factor |-> factor,
                gw_reduction_start |-> start]
    /\ link_flow = LeftOut /\ cwa = LeftOut /\ jva = LeftOut /\ waj = LeftOut
    /\ calls = LeftOut /\ phases = LeftOut /\ market = LeftOut /\ sim = LeftOut

\* Groundwater.setup: the head of the current timestep is read from
\* head_calc, the pumping is reset, the lift, the dry check and the capacity
\* reduction factor are set.
Groundwater_setup ==
    /\ pc = "gw_setup"
    /\ node' = [n \in gw_nodes |->
                   LET head == node[n].head_calc[idx]
                       head_bias_corr == head + bias_correction[n]
                       dry == Groundwater_dry(n, head_bias_corr, node[n].permanently_dry,
                                              gw.gw_reduction_start)
                   IN [node[n] EXCEPT
                         !.head = head,
                         !.head_bias_corr = head_bias_corr,
                         !.pumping = 0,
                         !.lift = gw_top[n] - head_bias_corr,
                         !.check_dry = dry.check_dry,
                         !.permanently_dry = dry.permanently_dry,
                         !.capacity_reduction_factor = dry.capacity_reduction_factor]]
    /\ pc' = "gw_pumping"
    /\ UNCHANGED <<idx, link_flow, cwa, jva, waj, calls, phases, gw, market, sim>>

\* WAJ.determine_groundwater_pumping: the pumping of the period.
determine_groundwater_pumping ==
    /\ pc = "gw_pumping"
    /\ \E pumping \in pumping_of_period :
          node' = [n \in gw_nodes |-> [node[n] EXCEPT !.pumping = pumping[n]]]
    /\ pc' = "gw_response"
    /\ UNCHANGED <<idx, link_flow, cwa, jva, waj, calls, phases, gw, market, sim>>

\* GWResponseEngine.run.
GWResponseEngine_run ==
    /\ pc = "gw_response"
    /\ LET timestep == idx + 1
           position(r) == CHOOSE n \in gw_nodes : matrix_position[n] = r
           head1   == [r \in gw_rows |-> node[position(r)].head_calc]
           pumping == [r \in gw_rows |-> unit_pumping(node, position(r))]
           add     == addhead(gw.dd, pumping, gw.gw_response_factor, timestep)
           head2   == [r \in gw_rows |-> [t \in head_times |-> head1[r][t] + add[r][t]]]
       IN /\ gw' = [gw EXCEPT !.head = head2, !.pumping = pumping,
                               !.pumping_of_pass = Append(@, pumping)]
          /\ node' = [n \in gw_nodes |->
                         [node[n] EXCEPT !.head_calc = head2[matrix_position[n]]]]
    /\ pc' = "gw_post_process"
    /\ UNCHANGED <<idx, link_flow, cwa, jva, waj, calls, phases, market, sim>>

\* The end of the period: the next timestep, if there is one.
gw_post_process ==
    /\ pc = "gw_post_process"
    /\ IF idx + 1 < MaxTimesteps
       THEN idx' = idx + 1 /\ pc' = "gw_setup"
       ELSE idx' = idx /\ pc' = "gw_finished"
    /\ UNCHANGED <<node, link_flow, cwa, jva, waj, calls, phases, gw, market, sim>>

NextGW ==
    \/ Groundwater_setup
    \/ determine_groundwater_pumping
    \/ GWResponseEngine_run
    \/ gw_post_process

SpecGW == InitGW /\ [][NextGW]_vars

----------------------------------------------------------------------------
(* Properties of the response matrix, checked under SpecGW *)

\* C12: a pass at time index idx changes no head entry with a time index
\* below idx, neither in the head array of the engine nor in the head_calc
\* of a node: the head stored for a completed month stays what it was when
\* the month was completed, whatever passes follow.
C12_PastHeadsNeverRevised ==
    [][\A n \in gw_nodes : \A t \in head_times :
          t < idx =>
             /\ gw'.head[matrix_position[n]][t] = gw.head[matrix_position[n]][t]
             /\ node'[n].head_calc[t] = node[n].head_calc[t]]_vars

C12_Witness ==
    /\ pc = "gw_post_process"
    /\ idx >= 2
    /\ \E n \in gw_nodes :
          /\ gw.head[matrix_position[n]][idx] # baseline_heads[matrix_position[n]][idx]
          /\ gw.head[matrix_position[n]][idx - 1] # baseline_heads[matrix_position[n]][idx - 1]
          /\ gw.pumping[matrix_position[n]] # 0

\* The case of C13: the matrix with the single coefficient -0.5, the first
\* node pumping 12 against a baseline of 10, and the pass of the period done.
SinglePassCase ==
    /\ pc = "gw_post_process"
    /\ gw.dd = dd_single
    /\ node["110101_urb_01"].pumping = 12
    /\ baseline_pumping["110101_urb_01"] = 10
    /\ gw.pumping[0] = 200

\* C13 as stated: the pass lowers the head of the month at the node by
\* 0.5 x 200 below the baseline head (200 halves of a metre).
C13_HeadLoweredByHundred ==
    SinglePassCase => gw.head[0][idx] = baseline_heads[0][idx] - 200

\* C13 amended: the pass adds -1.0 x coefficient x unit pumping x
\* gw_response_factor to the head of the month, so that the coefficient -0.5
\* raises the head by 0.5 x 200 x gw_response_factor above the baseline head;
\* no month before it is touched.
C13_HeadRaisedByResponse ==
    SinglePassCase =>
        /\ gw.head[0][idx] = baseline_heads[0][idx] + 200 * gw.gw_response_factor
        /\ \A t \in head_times : t < idx =>
              gw.head[0][t] \in {baseline_heads[0][t],
                                 baseline_heads[0][t] + 200 * gw.gw_response_factor}

C13_Witness ==
    /\ SinglePassCase
    /\ idx >= 1
    /\ gw.gw_response_factor = 2
    /\ gw.head[0][idx] # baseline_heads[0][idx]

----------------------------------------------------------------------------
(* TankerMarket.det_tanker_market_contracts: the tanker market.            *)
(*                                                                         *)
(* Specification SpecMarket follows the clearing calls of a run, one a     *)
(* period, after the farms and the consumers got their values of the       *)
(* period.  Volumes are whole numbers on the grid 0..MaxTrade; an offer    *)
(* quantity is counted in units of 365/12, so that the division that makes *)
(* the offer ceiling of it leaves the number as it is.  The objective of   *)
(* the model is a consumer surplus with logarithms, counted in hundredths  *)
(* with the logarithm rounded: a solve that returns optimal returns a      *)
(* point of the highest objective among those that satisfy every           *)
(* constraint, a solve that returns with another termination condition     *)
(* returns any point, and a solve that raises loads nothing.               *)

MaxTrade == 1
MaxClearings == 3
Trades == 0..MaxTrade

\* None, where a number or a string takes its place later, and where an
\* object does.
None == "None"
Null == <<>>
IsNull(v) == DOMAIN v = {}

all_consumers == {"h1", "h2", "h3"}
all_subdists == {"d1", "d2"}
all_fewer_farms == {"f1", "f2"}

\* ha.subdist and fa0.subdistrict.
subdist == [a \in all_consumers \cup all_fewer_farms |->
               IF a = "h3" THEN "d2" ELSE "d1"]

\* self.road_dist, in kilometres.
road_dist ==
    [k \in all_subdists \X all_fewer_farms |->
        CASE k = <<"d1", "f1">> -> 1
          [] k = <<"d1", "f2">> -> 6
          [] k = <<"d2", "f1">> -> 9
          [] k = <<"d2", "f2">> -> 8]

max_tanker_sale_distance == 5
transport_cost_coef == 1
minimum_farm_offer_constraint == 1

\* ha.sigma and ha.sigma2, the coefficients of the demand of a consumer: the
\* price the consumer pays for one unit more at the consumption q is
\* sigma2 + sigma * log(q).
sigma == -4
sigma2 == 12

\* What the farms and the consumers hold when the clearing call starts.
agents_of_period ==
    { [farms |-> [f \in all_fewer_farms |->
                     [tanker_offer_quantity |-> 2,
                      tanker_water_price |-> IF f = "f1" THEN 1 ELSE 3]],
       consumers |-> [h \in all_consumers |->
                         [represented_units |-> 1, piped_consumption |-> 1,
                          sigma |-> sigma, sigma2 |-> sigma2]]],
      [farms |-> [f \in all_fewer_farms |->
                     [tanker_offer_quantity |-> IF f = "f1" THEN 1 ELSE 0,
                      tanker_water_price |-> IF f = "f1" THEN 1 ELSE 3]],
       consumers |-> [h \in all_consumers |->
                         [represented_units |-> IF h = "h3" THEN 0 ELSE 1,
                          piped_consumption |-> 1,
                          sigma |-> sigma, sigma2 |-> sigma2]]],
      [farms |-> [f \in all_fewer_farms |->
                     [tanker_offer_quantity |-> IF f = "f1" THEN 0 ELSE 1,
                      tanker_water_price |-> 2]],
       consumers |-> [h \in all_consumers |->
                         [represented_units |-> IF h = "h3" THEN 2 ELSE 1,
                          piped_consumption |-> IF h = "h2" THEN 0 ELSE 1,
                          sigma |-> sigma, sigma2 |-> sigma2]]] }

\* 1.3. The index sets: the farms a subdistrict can buy from, and so on.
ds_hindices(d) == {h \in all_consumers : subdist[h] = d}
ds_findices(d) ==
    {f \in all_fewer_farms :
        road_dist[<<d, f>>] <= max_tanker_sale_distance \/ subdist[f] = d}
hs_findices(h) == ds_findices(subdist[h])
fs_hindices(f) == {h \in all_consumers : f \in hs_findices(h)}
market_pairs == all_consumers \X all_fewer_farms
eligible_pairs == {k \in market_pairs : k[2] \in hs_findices(k[1])}

\* float("inf"): a number above every sum of volumes on the grid.
inf == 1000000

\* 1.3.5. The parameters of the period.
is_hix_actives(nd) ==
    [h \in all_consumers |->
        IF nd.consumers[h].represented_units > 0 /\ nd.consumers[h].piped_consumption > 0
        THEN inf ELSE 0]

is_active(nd, h) ==
    nd.consumers[h].represented_units > 0 /\ nd.consumers[h].piped_consumption > 0

repres_units(nd) ==
    [h \in all_consumers |->
        IF is_active(nd, h) THEN nd.consumers[h].represented_units ELSE 1]

cs_coefs(nd) ==
    [h \in all_consumers |-> IF is_active(nd, h) THEN nd.consumers[h].sigma ELSE 0]

cs_expos(nd) ==
    [h \in all_consumers |-> IF is_active(nd, h) THEN nd.consumers[h].sigma2 ELSE 0]

pw_consps(nd) ==
    [h \in all_consumers |->
        IF is_active(nd, h) THEN nd.consumers[h].piped_consumption ELSE 0]

\* 100 * q * log(q), rounded, for the consumptions on the grid; 0 at 0.
xlogx(q) ==
    CASE q = 0 -> 0
      [] q = 1 -> 0
      [] q = 2 -> 139
      [] q = 3 -> 330
      [] q = 4 -> 555
      [] q = 5 -> 805
      [] q = 6 -> 1075
      [] q = 7 -> 1362

\* The surplus of a consumer at the consumption q, in hundredths:
\* ((coef * log(q)) - coef + expo) * q.
surplus(coef, expo, q) == coef * xlogx(q) + (expo - coef) * 100 * q

pw_csurpls(nd) ==
    [h \in all_consumers |->
        IF is_active(nd, h)
        THEN surplus(nd.consumers[h].sigma, nd.consumers[h].sigma2,
                     nd.consumers[h].piped_consumption)
        ELSE 0]

max_offer_constraints(nd) ==
    [f \in all_fewer_farms |->
        IF nd.farms[f].tanker_offer_quantity > 0
        THEN nd.farms[f].tanker_offer_quantity
        ELSE minimum_farm_offer_constraint]

mean_price(nd, f) ==
    IF nd.farms[f].tanker_offer_quantity > 0 THEN nd.farms[f].tanker_water_price ELSE 1

min_prices(nd, coef) ==
    [k \in eligible_pairs |->
        coef * road_dist[<<subdist[k[1]], k[2]>>] + mean_price(nd, k[2])]

x_start_values == [k \in market_pairs |-> IF k \in eligible_pairs THEN 0 ELSE None]

\* The constraints c3 and c4 of the model.
Sold(xs, f) == Sum([h \in fs_hindices(f) |-> xs[<<h, f>>]], fs_hindices(f))
Bought(xs, h) == Sum([f \in hs_findices(h) |-> xs[<<h, f>>]], hs_findices(h))

\* A model without the ceiling on the sales of a farm.
no_sales_ceiling_constraint(fwm, xs, f) == TRUE

sales_ceiling_constraint(fwm, xs, f) == Sold(xs, f) <= fwm.f_qmax[f]

inactivity_constraint(fwm, xs, h) == Bought(xs, h) <= fwm.is_hix_actives[h]

\* The objective of the model, in hundredths: the surplus the consumers
\* gain over their piped consumption, less what they pay at the minimum
\* prices.
obj_fun(fwm, xs) ==
    Sum([h \in all_consumers |->
            ( surplus(fwm.coefs[h], fwm.expos[h],
                      (Bought(xs, h) \div fwm.hunits[h]) + fwm.pw_qs[h])
              - fwm.pw_css[h]
              - (Sum([f \in hs_findices(h) |->
                         100 * fwm.min_prcs[<<h, f>>] * xs[<<h, f>>]],
                     hs_findices(h)) \div fwm.hunits[h]) ) * fwm.hunits[h]],
        all_consumers)

market_points ==
    {[k \in market_pairs |-> IF k \in eligible_pairs THEN x[k] ELSE None] :
        x \in [eligible_pairs -> Trades]}

market_feasible(fwm) ==
    {xs \in market_points :
        /\ \A f \in all_fewer_farms : sales_ceiling_constraint(fwm, xs, f)
        /\ \A h \in all_consumers : inactivity_constraint(fwm, xs, h)}

\* The points a solve that ends optimal can return: the feasible points of
\* the highest objective.
market_optimal(fwm) ==
    {xs \in market_feasible(fwm) :
        \A ys \in market_feasible(fwm) : obj_fun(fwm, ys) <= obj_fun(fwm, xs)}

\* What opt.solve can end with: an error it raises (ValueError or
\* ApplicationError), a result with the termination condition optimal, a
\* result with another termination condition.
solve_outcomes == {"raise", "optimal", "non_optimal"}

\* The values a solve that ends with outcome can leave in fwm.xs.
Returned(fwm, outcome) ==
    IF outcome = "optimal" THEN market_optimal(fwm)
    ELSE IF outcome = "non_optimal" THEN market_points
    ELSE {fwm.xs}

\* B.3: the options of a warmed-up run.
warm_start_options ==
    {"warm_start_init_point", "warm_start_bound_push", "warm_start_mult_bound_push",
     "mu_init"}

\* The configuration a solve runs from: the options of the solver and the
\* multipliers the model hands to it.
configuration(opt, fwm) == [options |-> opt.options, ipopt_zL_in |-> fwm.ipopt_zL_in]

\* A retry from nothing: no option, no multiplier.
retry_configuration_cold(cfg) == [options |-> {}, ipopt_zL_in |-> {}]

\* The retry is the same call of opt.solve on the same model.
retry_configuration(cfg) == cfg

\* A.2.3: the parameters of the model, from the agents of the period.
parameters_of_period(nd, coef) ==
    [f_qmax         |-> max_offer_constraints(nd),
     hunits         |-> repres_units(nd),
     coefs          |-> cs_coefs(nd),
     expos          |-> cs_expos(nd),
     pw_qs          |-> pw_consps(nd),
     pw_css         |-> pw_csurpls(nd),
     is_hix_actives |-> is_hix_actives(nd),
     min_prcs       |-> min_prices(nd, coef)]

parameter_names ==
    {"f_qmax", "hunits", "coefs", "expos", "pw_qs", "pw_css", "is_hix_actives", "min_prcs"}

\* A warm branch that leaves the ceilings of the farms as they were.
update_parameters_but_f_qmax(fwm, nd, coef) ==
    [n \in DOMAIN fwm |->
        IF n \in parameter_names \ {"f_qmax"}
        THEN parameters_of_period(nd, coef)[n] ELSE fwm[n]]

\* B.3: the parameters of the stored model, set in place.
update_parameters(fwm, nd, coef) ==
    [n \in DOMAIN fwm |->
        IF n \in parameter_names THEN parameters_of_period(nd, coef)[n] ELSE fwm[n]]

\* A model that is made again for every call.
fwm_always_built(first_run, stored, built) == built

\* 2. The model of the call: built in the first run, the stored one later.
fwm_of_call(first_run, stored, built) == IF first_run THEN built ELSE stored

\* Results that are emptied when the solver did not come back.
result_xs_or_nothing(status, xs, previous) ==
    IF status = "ok" THEN xs ELSE x_start_values

\* 4. The results the agents are updated from.
result_xs_of_call(status, xs, previous) == IF status = "ok" THEN xs ELSE previous

Maximum(S) == CHOOSE x \in S : \A y \in S : y <= x

subdist_purchase(xs, d, f) ==
    Sum([h \in ds_hindices(d) |-> xs[<<h, f>>]], ds_hindices(d))

\* A subdistrict price that leaves the way to the farm out.
tanker_price_at_farm(xs, nd, coef, d) ==
    Maximum({0} \cup {nd.farms[f].tanker_water_price :
                         f \in {g \in ds_findices(d) : subdist_purchase(xs, d, g) > 0}})

\* da.tanker_price: the highest price, way included, among the farms the
\* subdistrict bought from.
tanker_price(xs, nd, coef, d) ==
    Maximum({0} \cup {nd.farms[f].tanker_water_price + coef * road_dist[<<d, f>>] :
                         f \in {g \in ds_findices(d) : subdist_purchase(xs, d, g) > 0}})

final_tanker_price(xs, nd, coef, h) ==
    IF nd.consumers[h].represented_units > 0
    THEN tanker_price(xs, nd, coef, subdist[h])
    ELSE 0

tanker_consumption(xs, nd, h) ==
    IF nd.consumers[h].represented_units > 0
    THEN Bought(xs, h) \div nd.consumers[h].represented_units
    ELSE 0

gw_sale_to_tanker(xs, nd, f) ==
    IF nd.farms[f].tanker_offer_quantity > 0
    THEN Sum([d \in {e \in all_subdists : f \in ds_findices(e)} |->
                 subdist_purchase(xs, d, f)],
             {e \in all_subdists : f \in ds_findices(e)})
    ELSE 0

\* reset_agent_variables.
reset_agent_variables ==
    [tanker_price       |-> [d \in all_subdists |-> 0],
     final_tanker_price |-> [h \in all_consumers |-> 0],
     tanker_consumption |-> [h \in all_consumers |-> 0],
     gw_sale_to_tanker  |-> [f \in all_fewer_farms |-> 0]]

\* TankerMarket.__init__.
TankerMarket_init ==
    [transport_cost_coef        |-> None,
     is_tanker_market_first_run |-> TRUE,
     fwm                        |-> Null,
     opt                        |-> Null,
     result_xs                  |-> Null,
     solver_status              |-> None,
     termination_condition      |-> None,
     models_constructed         |-> 0,
     log                        |-> {},
     error                      |-> None,
     agents                     |-> reset_agent_variables]

InitMarket ==
    /\ idx = 0
    /\ pc = "agents"
    /\ node = [farms |-> [f \in all_fewer_farms |->
                             [tanker_offer_quantity |-> 0, tanker_water_price |-> 0]],
               consumers |-> [h \in all_consumers |->
                                 [represented_units |-> 0, piped_consumption |-> 0,
                                  sigma |-> sigma, sigma2 |-> sigma2]]]
    /\ market = TankerMarket_init
    /\ calls = <<>>
    /\ link_flow = LeftOut /\ cwa = LeftOut /\ jva = LeftOut /\ waj = LeftOut
    /\ phases = LeftOut /\ gw = LeftOut /\ sim = LeftOut

\* The farms set their offers and prices, the consumers their piped
\* consumption, before the market clears.
set_tanker_offer ==
    /\ pc = "agents"
    /\ node' \in agents_of_period
    /\ pc' = "tanker_market"
    /\ UNCHANGED <<idx, link_flow, cwa, jva, waj, calls, phases, gw, market, sim>>

\* One call of opt.solve, as the call record keeps it.
attempt(opt, cfg, outcome) == [solver |-> opt.solver, configuration |-> cfg, outcome |-> outcome]

\* 4. and what follows: the results of the call, the agents updated from
\* them, and the error that reading results that are not there raises.
update_agent_variables(fwm1, opt1, status, termination, attempts, log, coef) ==
    LET result == result_xs_of_call(status, fwm1.xs, market.result_xs)
        base   == [market EXCEPT
                     !.transport_cost_coef = coef,
                     !.is_tanker_market_first_run = FALSE,
                     !.fwm = fwm1,
                     !.opt = opt1,
                     !.result_xs = result,
                     !.solver_status = status,
                     !.termination_condition = termination,
                     !.models_constructed =
                         IF fwm1.constructed_at = idx THEN @ + 1 ELSE @,
                     !.log = log \cup
                         {IF status = "ok"
                          THEN "Tanker water market solved using IPOPT"
                          ELSE "Tanker water market solver did not converge ... previous results loaded"}]
    IN /\ IF IsNull(result)
          THEN /\ market' = [base EXCEPT !.error = "TypeError",
                                         !.agents = reset_agent_variables]
               /\ pc' = "raised"
          ELSE /\ market' =
                     [base EXCEPT
                        !.agents =
                           [tanker_price |->
                               [d \in all_subdists |-> tanker_price(result, node, coef, d)],
                            final_tanker_price |->
                               [h \in all_consumers |->
                                   final_tanker_price(result, node, coef, h)],
                            tanker_consumption |->
                               [h \in all_consumers |-> tanker_consumption(result, node, h)],
                            gw_sale_to_tanker |->
                               [f \in all_fewer_farms |-> gw_sale_to_tanker(result, node, f)]]]
               /\ pc' = "market_post_process"
       /\ calls' = <<[inst |-> "market", attempts |-> attempts, inputs |-> node]>>

\* TankerMarket.det_tanker_market_contracts.
det_tanker_market_contracts ==
    /\ pc = "tanker_market"
    /\ LET first  == market.is_tanker_market_first_run
           coef   == IF idx = 0 THEN transport_cost_coef ELSE market.transport_cost_coef
           params == parameters_of_period(node, coef)
           built  == [n \in parameter_names \cup
                            {"constructed_at", "xs", "ipopt_zL_in", "ipopt_zL_out"} |->
                         CASE n = "constructed_at" -> idx
                           [] n = "xs"             -> x_start_values
                           [] n = "ipopt_zL_in"    -> {}
                           [] n = "ipopt_zL_out"   -> {}
                           [] OTHER                -> params[n]]
           stored == IF IsNull(market.fwm) THEN Null
                     ELSE update_parameters(
                              [market.fwm EXCEPT
                                 !.ipopt_zL_in = IF market.fwm.ipopt_zL_out = {}
                                                 THEN @ ELSE market.fwm.ipopt_zL_out],
                              node, coef)
           fwm    == fwm_of_call(first, stored, built)
           opt    == IF first THEN [solver |-> "ipopt", options |-> {}]
                     ELSE [market.opt EXCEPT !.options = @ \cup warm_start_options]
           cfg    == configuration(opt, fwm)
           again  == retry_configuration(cfg)
           retrying == "ipopt did not converge ... retrying"
       IN \/ \E outcome \in solve_outcomes \ {"raise"} :
                \E xs \in Returned(fwm, outcome) :
                   update_agent_variables(
                       [fwm EXCEPT !.xs = xs, !.ipopt_zL_out = {idx}], opt, "ok", outcome,
                       <<attempt(opt, cfg, outcome)>>, {}, coef)
          \/ \E outcome \in solve_outcomes \ {"raise"} :
                \E xs \in Returned(fwm, outcome) :
                   update_agent_variables(
                       [fwm EXCEPT !.xs = xs, !.ipopt_zL_out = {idx}], opt, "ok", outcome,
                       <<attempt(opt, cfg, "raise"), attempt(opt, again, outcome)>>,
                       {retrying}, coef)
          \/ update_agent_variables(
                 fwm, opt, "ipopt failed twice", market.termination_condition,
                 <<attempt(opt, cfg, "raise"), attempt(opt, again, "raise")>>,
                 {retrying, IF first THEN "ipopt did not converge"
                            ELSE "ipopt did not converge ... re-using previous results"},
                 coef)
    /\ UNCHANGED <<idx, node, link_flow, cwa, jva, waj, phases, gw, sim>>

\* The end of the period: the next timestep, if there is one.
market_post_process ==
    /\ pc = "market_post_process"
    /\ IF idx + 1 < MaxClearings
       THEN idx' = idx + 1 /\ pc' = "agents"
       ELSE idx' = idx /\ pc' = "market_finished"
    /\ UNCHANGED <<node, link_flow, cwa, jva, waj, calls, phases, gw, market, sim>>

NextMarket ==
    \/ set_tanker_offer
    \/ det_tanker_market_contracts
    \/ market_post_process

SpecMarket == InitMarket /\ [][NextMarket]_vars

----------------------------------------------------------------------------
(* Properties of the tanker market, checked under SpecMarket.  calls holds *)
(* the clearing call made last with its solver attempts; a call is         *)
(* completed when it returned to its caller.                               *)

CallMade == calls # <<>> /\ pc \in {"market_post_process", "raised", "agents", "market_finished"}
CallCompleted == calls # <<>> /\ pc = "market_post_process"
Attempts == calls[1].attempts
LastOutcome == Attempts[Len(Attempts)].outcome
FailedTwice == market.solver_status = "ipopt failed twice"

\* C14: the model is constructed exactly once, in the first clearing call;
\* every later call works on the model that call constructed.
C14_ModelConstructedOnce ==
    /\ market.models_constructed <= 1
    /\ CallMade =>
          /\ market.models_constructed = 1
          /\ market.fwm.constructed_at = 0
          /\ ~market.is_tanker_market_first_run

C14_Witness ==
    /\ CallCompleted
    /\ idx >= 2
    /\ market.models_constructed = 1
    /\ market.fwm.f_qmax # [f \in all_fewer_farms |-> 2]

\* The agent values a call leaves when it updates the agents from xs.
AgentsFrom(xs, nd) ==
    [tanker_price |->
        [d \in all_subdists |-> tanker_price(xs, nd, market.transport_cost_coef, d)],
     final_tanker_price |->
        [h \in all_consumers |->
            final_tanker_price(xs, nd, market.transport_cost_coef, h)],
     tanker_consumption |-> [h \in all_consumers |-> tanker_consumption(xs, nd, h)],
     gw_sale_to_tanker |-> [f \in all_fewer_farms |-> gw_sale_to_tanker(xs, nd, f)]]

\* C15: a call in which the solve and its retry both fail, made after a
\* period that was cleared, updates the agents from the volumes of the period
\* cleared last (the results change in no call but one whose solve came
\* back), and logs that the market did not clear.
C15_PreviousResultsReused ==
    [][(pc = "tanker_market" /\ pc' = "market_post_process") =>
          /\ market'.result_xs # market.result_xs => market'.solver_status = "ok"
          /\ market'.solver_status = "ipopt failed twice" =>
                /\ market'.result_xs = market.result_xs
                /\ market'.agents = AgentsFrom(market.result_xs, node)
                /\ "ipopt did not converge ... re-using previous results" \in market'.log
                /\ "Tanker water market solver did not converge ... previous results loaded"
                      \in market'.log]_vars

C15_Witness ==
    /\ CallCompleted
    /\ FailedTwice
    /\ \E k \in eligible_pairs : market.result_xs[k] > 0
    /\ market.agents.gw_sale_to_tanker["f1"] > 0

\* C16: no clearing call, the first one included, leaves an error to its
\* caller, whatever the solve and the retry end with.
C16_NoErrorToTheCaller == market.error = None

\* The configuration without warm start: no option set, no multiplier
\* carried over.
ColdConfiguration == [options |-> {}, ipopt_zL_in |-> {}]

\* C17 as stated: after a failed solve there is one retry, with the same
\* solver, and it runs from the cold configuration.
C17_RetryFromColdConfiguration ==
    CallMade =>
        /\ Len(Attempts) \in {1, 2}
        /\ Len(Attempts) = 2 <=> Attempts[1].outcome = "raise"
        /\ Len(Attempts) = 2 =>
              /\ Attempts[2].solver = Attempts[1].solver
              /\ Attempts[2].configuration = ColdConfiguration

\* C17 amended: after a solve that raised there is one retry, with the same
\* solver, from the configuration of the attempt that failed: the same
\* options and the same multipliers.
C17_RetryFromSameConfiguration ==
    CallMade =>
        /\ Len(Attempts) \in {1, 2}
        /\ Len(Attempts) = 2 <=> Attempts[1].outcome = "raise"
        /\ Len(Attempts) = 2 =>
              /\ Attempts[2].solver = Attempts[1].solver
              /\ Attempts[2].configuration = Attempts[1].configuration

C17_Witness ==
    /\ CallMade
    /\ Len(Attempts) = 2
    /\ Attempts[1].configuration.options = warm_start_options
    /\ Attempts[1].configuration.ipopt_zL_in # {}
    /\ Attempts[2].outcome = "optimal"

\* C18: a solve that returns with a termination condition other than
\* optimal counts as failed: it is followed by the retry, and the call whose
\* last solve returned so does not take its values as the results.
C18_NonOptimalCountsAsFailure ==
    CallMade =>
        /\ Attempts[1].outcome = "non_optimal" => Len(Attempts) = 2
        /\ LastOutcome = "non_optimal" => market.solver_status # "ok"

\* C19 as stated: in every period the results the agents are updated from
\* keep, for every farm, the sales of the farm to all its buyers within the
\* offer ceiling of the farm in that period.
C19_SalesWithinCeilingEveryPeriod ==
    CallCompleted =>
        \A f \in all_fewer_farms :
            Sold(market.result_xs, f) <= max_offer_constraints(node)[f]

\* C19 amended: the sales are within the ceiling of the period in every
\* period whose last solve returned optimal.  Results kept from an earlier
\* period, and results of a solve that returned with another termination
\* condition, are bound by no ceiling of the period.
C19_SalesWithinCeilingWhenOptimal ==
    (CallCompleted /\ LastOutcome = "optimal") =>
        \A f \in all_fewer_farms :
            /\ market.fwm.f_qmax[f] = max_offer_constraints(node)[f]
            /\ Sold(market.result_xs, f) <= max_offer_constraints(node)[f]

C19_Witness ==
    /\ CallCompleted
    /\ LastOutcome = "optimal"
    /\ idx >= 1
    /\ max_offer_constraints(node)["f1"] < Cardinality(fs_hindices("f1")) * MaxTrade
    /\ Sold(market.result_xs, "f1") = max_offer_constraints(node)["f1"]

\* The farms consumer h bought a volume from, and the farms the consumers
\* of subdistrict d bought a volume from.
BoughtFrom(h) == {f \in hs_findices(h) : market.result_xs[<<h, f>>] > 0}
SubdistBoughtFrom(d) == UNION {BoughtFrom(h) : h \in ds_hindices(d)}

\* C20 as stated: the price of every consumer that bought is the highest
\* minimum price of the model of the period among the farms the consumer
\* bought a volume from.
C20_PriceFromOwnSellers ==
    CallCompleted =>
        \A h \in all_consumers :
            BoughtFrom(h) # {} =>
                market.agents.final_tanker_price[h] =
                    Maximum({market.fwm.min_prcs[<<h, f>>] : f \in BoughtFrom(h)})

\* The price of farm f at subdistrict d: the price of the farm and the way.
PriceAt(d, f) ==
    node.farms[f].tanker_water_price + market.transport_cost_coef * road_dist[<<d, f>>]

\* C20 amended: a consumer that represents no unit has the price 0; every
\* other consumer has the price of its subdistrict, which is the highest
\* price (price of the farm and the way) among the farms the consumers of
\* the subdistrict bought a volume from, and 0 where they bought none.  It is
\* the minimum price of the model for every farm that offers a quantity.
C20_PriceOfTheSubdistrict ==
    CallCompleted =>
        \A h \in all_consumers :
            LET price == market.agents.final_tanker_price[h]
                from  == SubdistBoughtFrom(subdist[h])
            IN IF node.consumers[h].represented_units = 0 THEN price = 0
               ELSE IF from = {} THEN price = 0
               ELSE /\ \A f \in from : price >= PriceAt(subdist[h], f)
                    /\ \E f \in from : price = PriceAt(subdist[h], f)
                    /\ \A f \in from :
                          node.farms[f].tanker_offer_quantity > 0 =>
                             PriceAt(subdist[h], f) = market.fwm.min_prcs[<<h, f>>]

C20_Witness ==
    /\ CallCompleted
    /\ LastOutcome = "optimal"
    /\ BoughtFrom("h1") = {"f1"}
    /\ BoughtFrom("h2") = {"f2"}
    /\ market.agents.final_tanker_price["h1"] = PriceAt("d1", "f2")
    /\ market.agents.final_tanker_price["h1"] > market.fwm.min_prcs[<<"h1", "f1">>]

\* The clearing call that is about to be made has the inputs of the call
\* before it: the same values at every farm and every consumer.
SameInputsAsBefore ==
    /\ pc = "tanker_market"
    /\ calls # <<>>
    /\ calls[1].inputs = node

LastOutcomeOf(call) == call.attempts[Len(call.attempts)].outcome

\* C21: a clearing call made with the inputs of the call before it returns
\* the volumes and the prices of that call: nothing the model or the solver
\* kept of the first call changes the result of the second.
C21_SameResultForSameInputs ==
    [][(SameInputsAsBefore /\ pc' = "market_post_process") =>
          /\ market'.result_xs = market.result_xs
          /\ market'.agents = market.agents]_vars

\* The same for two calls whose last solves both returned optimal, where
\* the model of the period has one point of the highest objective only.
C21_SameResultWhenOptimumUnique ==
    [][(/\ SameInputsAsBefore /\ pc' = "market_post_process"
        /\ LastOutcomeOf(calls[1]) = "optimal"
        /\ LastOutcomeOf(calls'[1]) = "optimal"
        /\ Cardinality(market_optimal(market'.fwm)) = 1) =>
          /\ market'.result_xs = market.result_xs
          /\ market'.agents = market.agents]_vars

\* Two calls whose last solves both returned optimal leave the same values
\* at the agents; the volumes of the pairs can differ where consumers of one
\* subdistrict buy from more than one farm.
C21_SameAgentValuesWhenOptimal ==
    [][(/\ SameInputsAsBefore /\ pc' = "market_post_process"
        /\ LastOutcomeOf(calls[1]) = "optimal"
        /\ LastOutcomeOf(calls'[1]) = "optimal") =>
          market'.agents = market.agents]_vars

\* C25: after the first call, the model a clearing call solves holds, for
\* every parameter of the period (the ceiling of every farm; the units, the
\* coefficients, the piped consumption, its surplus and the activity of every
\* consumer; the minimum price of every pair that can trade, and no other
\* pair), the value that follows from the agents of the period.
C25_ParametersOfThePeriod ==
    (CallCompleted /\ idx >= 1) =>
        /\ \A n \in parameter_names :
              market.fwm[n] = parameters_of_period(node, market.transport_cost_coef)[n]
        /\ DOMAIN market.fwm.min_prcs = eligible_pairs

C25_Witness ==
    /\ CallCompleted
    /\ idx >= 1
    /\ market.fwm.constructed_at = 0
    /\ FailedTwice
    /\ market.result_xs[<<"h2", "f1">>] > 0
    /\ market.fwm.is_hix_actives["h2"] = 0
    /\ market.fwm.hunits["h3"] = 2
    /\ market.fwm.f_qmax["f1"] = minimum_farm_offer_constraint

----------------------------------------------------------------------------
(* JordanSimulator: the timesteps, the engines and the loop over both.     *)
(*                                                                         *)
(* Specification SpecRun follows one simulator from its set-up through a   *)
(* run and through the extension of the run by add_timesteps and           *)
(* continue_simulation.  A timestep is the number of its month counted     *)
(* from year 0 of the scaled calendar (year * MonthsPerYear + month - 1).  *)
(* The loop of start() is the loop of the pynsim Simulator, which has the  *)
(* shape of the loop of continue_simulation with the offset 0.  The        *)
(* attributes current_timestep and current_timestep_idx that add_timesteps *)
(* and continue_simulation read on the simulator are not written in        *)
(* simulator.py: they hold what the loop of start() left, or what the      *)
(* network holds, and the model takes either.  An engine run is its entry  *)
(* in the list of the engines that ran in the period.                      *)

MaxExtensions == 1

\* set_timestep_information: the longest runs, in years.
max_number_of_years == 84
max_number_of_years_tanker == 36
tanker_start_year == 2015

StartYears == {StartYear}
simulation_types == {"tanker", "baseline"}
numbers_of_years == {1, 2, max_number_of_years + 1}
years_to_add == {1, 2}

\* datetime.datetime.strptime(start_month, '%b %Y')
strptime(y, m) == y * MonthsPerYear + (m - 1)

\* The rows of sheet "engines" of this simulation: every sheet lists the
\* same engines, in any order of rows, with the positions 1 to N in column
\* "order" in any assignment.
engine_rows ==
    { [engine_class |-> "CWAForecastEngine", engine_target |-> "cwa"],
      [engine_class |-> "JVAValleyForecastEngine", engine_target |-> "jva"],
      [engine_class |-> "WAJForecastEngine", engine_target |-> "waj"] }

no_of_engines == Cardinality(engine_rows)

engines_inputs_sheets ==
    {sheet \in [1..no_of_engines -> [engine_class : {r.engine_class : r \in engine_rows},
                                     engine_target : {r.engine_target : r \in engine_rows},
                                     order : 1..no_of_engines]] :
        /\ \A i \in 1..no_of_engines :
              [engine_class |-> sheet[i].engine_class,
               engine_target |-> sheet[i].engine_target] \in engine_rows
        /\ \A i, j \in 1..no_of_engines :
              i # j => /\ sheet[i].engine_class # sheet[j].engine_class
                       /\ sheet[i].order # sheet[j].order}

\* engine_setup.create_engine: the engine made of a row of the sheet.
create_engine(row) == [engine_class |-> row.engine_class, target |-> row.engine_target]

\* Engines in the order of the rows of the sheet.
engines_by_row(sheet) == [e \in 1..Len(sheet) |-> create_engine(sheet[e])]

\* set_engines: for e in range(no_of_engines), the engine of the first row
\* with order == e + 1.
engines_by_order(sheet) ==
    [e \in 1..Len(sheet) |->
        create_engine(sheet[CHOOSE i \in 1..Len(sheet) :
                               /\ sheet[i].order = e
                               /\ \A j \in 1..(i - 1) : sheet[j].order # e])]

\* The value CWA.det_kac_to_zai_forecast forecasts for a month, and
\* parameters.waj['surface_water_reduction'].
kac_to_zai_value == 2
SWR == 1

\* What JVA takes for the transfer of a month where CWA is not dynamic:
\* observations.cwa_transfer_averages['kac_n_amman'].
kac_n_amman == 3

\* list[p] of the source, p counted from 0, as the set of what it returns:
\* the empty set stands for IndexError.  Here with 0 where the list ends.
getitem_or_zero(list, p) == IF p < Len(list) THEN {list[p + 1]} ELSE {0}

getitem(list, p) == IF p < Len(list) THEN {list[p + 1]} ELSE {}

\* timestep.month
month_of_timestep(timestep) == (timestep % MonthsPerYear) + 1

\* CWA.det_kac_to_zai_forecast: the list is emptied, and filled for the
\* months of a year if CWA is dynamic.
det_kac_to_zai_forecast(cwa_dynamic) ==
    IF cwa_dynamic = 1 THEN [m \in 1..MonthsPerYear |-> kac_to_zai_value] ELSE <<>>

\* JVA.set_allocation_forecast, the other outflows of node kac_7: the places
\* of the forecast of CWA that are read, in December and in another month.
JVA_forecast_places(m) ==
    IF m = December THEN {p + 1 : p \in 0..(December - 2)}
    ELSE 0..(December - m - 1)

\* WAJ.set_allocation_forecast: extraction_cap_forecast[('zai', month)] for
\* the months 1..12, each from place month - 1 of the forecast of CWA.
WAJ_forecast_places == {m - 1 : m \in Months}

\* list[-k] of the source for k >= 1, as the set of what it returns: the
\* empty set stands for IndexError.
getitem_from_end(list, k) ==
    IF k <= Len(list) THEN {list[Len(list) - k + 1]} ELSE {}

year_of_timestep(timestep) == timestep \div MonthsPerYear

\* JVA.set_allocation_forecast, past_deficit: for every month of past_months
\* the entry of node_allocations_history the deficit is computed from
\* (for a node whose demand forecast of that month is positive); nothing is
\* read in December and at the first timestep.
JVA_past_deficit_reads(history, timestep, timestep_idx, first_timestep) ==
    LET m_now == month_of_timestep(timestep)
        past  == past_months(m_now,
                     year_of_timestep(timestep) = year_of_timestep(first_timestep))
    IN IF m_now # December /\ timestep_idx # 0
       THEN [m \in SeqToSet(past) |->
                getitem_from_end(history, IF m = December THEN m_now ELSE m_now - m)]
       ELSE <<>>

\* The entry JVA.set_allocation_forecast appends: the deliveries of the
\* months of its horizon.
JVA_history_entry(timestep) ==
    [timestep |-> timestep,
     months   |-> SeqToSet(JVA_rem_months(month_of_timestep(timestep)))]

\* What the run of an engine leaves: the attributes of the three
\* institutions, and the error it raises to the loop, if any.
engine_run(engine, timestep, parameters) ==
    LET forecast == cwa.kac_to_zai_forecast
        current  == [cwa |-> cwa, jva |-> jva, waj |-> waj, error |-> "None"]
    IN CASE engine.engine_class = "CWAForecastEngine" ->
              [current EXCEPT
                 !.cwa = [cwa EXCEPT !.kac_to_zai_forecast =
                                         det_kac_to_zai_forecast(parameters.cwa_dynamic)]]
         [] engine.engine_class = "JVAValleyForecastEngine" ->
              LET places == JVA_forecast_places(month_of_timestep(timestep))
                  reads  == JVA_past_deficit_reads(jva.node_allocations_history,
                                timestep, idx, sim.network_timesteps[1])
                  looked == [jva EXCEPT !.past_deficit_reads =
                                            [at |-> timestep, entries |-> reads]]
                  solved == [looked EXCEPT !.node_allocations_history =
                                               Append(@, JVA_history_entry(timestep))]
              IN IF \E m \in DOMAIN reads : reads[m] = {}
                 THEN [current EXCEPT !.jva = looked, !.error = "IndexError"]
                 ELSE IF \E m \in DOMAIN reads : \E entry \in reads[m] : m \notin entry.months
                 THEN [current EXCEPT !.jva = looked, !.error = "KeyError"]
                 ELSE IF parameters.cwa_dynamic # 1
                 THEN [current EXCEPT
                         !.jva = [solved EXCEPT !.exog_outflow =
                                                    [m \in Months |-> kac_n_amman]]]
                 ELSE IF \E p \in places : getitem(forecast, p) = {}
                 THEN [current EXCEPT !.jva = looked, !.error = "IndexError"]
                 ELSE [current EXCEPT
                         !.jva = [solved EXCEPT !.exog_outflow =
                                     [p \in places |->
                                         CHOOSE v \in getitem(forecast, p) : TRUE]]]
         [] engine.engine_class = "WAJForecastEngine" ->
              IF month_of_timestep(timestep) # 1 THEN current
              ELSE LET max_pump == [waj EXCEPT !.yearly_max_groundwater_pumping =
                                        Sum([k \in 1..Len(forecast) |-> forecast[k]],
                                            1..Len(forecast))]
                   IN IF \E p \in WAJ_forecast_places : getitem(forecast, p) = {}
                      THEN [current EXCEPT !.waj = max_pump, !.error = "IndexError"]
                      ELSE [current EXCEPT
                              !.waj = [max_pump EXCEPT
                                         !.extraction_cap_forecast =
                                             [m \in Months |->
                                                 (CHOOSE v \in getitem(forecast, m - 1) : TRUE)
                                                     * (1 + SWR)],
                                         !.models_built = @ + 1]]

\* The forecast of CWA that the run of an engine reads has never been
\* published, or was published empty.
ForecastMissing(engine, timestep, parameters) ==
    /\ cwa.kac_to_zai_forecast = <<>>
    /\ \/ engine.engine_class = "WAJForecastEngine" /\ month_of_timestep(timestep) = 1
       \/ engine.engine_class = "JVAValleyForecastEngine" /\ parameters.cwa_dynamic = 1

InitRun ==
    /\ idx = 0
    /\ pc = "set_timestep_information"
    /\ sim = [simulation_type      |-> "none",
              parameters           |-> [cwa_dynamic |-> 1],
              error                |-> "None",
              timesteps            |-> <<>>,
              sheet                |-> <<>>,
              engines              |-> <<>>,
              loop                 |-> "none",
              i                    |-> 0,
              last_timestep_idx    |-> 0,
              e                    |-> 0,
              ran                  |-> <<>>,
              periods              |-> 0,
              extensions           |-> 0,
              network_timestep     |-> 0,
              network_timesteps    |-> <<>>,
              current_timestep     |-> 0,
              current_timestep_idx |-> 0]
    /\ cwa = [kac_to_zai_forecast |-> <<>>]
    /\ jva = [exog_outflow             |-> <<>>,
              node_allocations_history |-> <<>>,
              past_deficit_reads       |-> [at |-> 0, entries |-> <<>>]]
    /\ waj = [yearly_max_groundwater_pumping |-> 0,
              extraction_cap_forecast        |-> <<>>,
              models_built                   |-> 0]
    /\ node = LeftOut /\ link_flow = LeftOut /\ calls = LeftOut /\ phases = LeftOut
    /\ gw = LeftOut /\ market = LeftOut

\* JordanSimulator.set_timestep_information, with set_timesteps.
Simulator_set_timestep_information ==
    /\ pc = "set_timestep_information"
    /\ \E type \in simulation_types, years \in numbers_of_years,
          y \in StartYears, m \in Months, cwa_dynamic \in {0, 1} :
          LET capped == IF years > max_number_of_years
                        THEN max_number_of_years ELSE years
              number_of_years ==
                  IF type = "tanker" /\ capped > max_number_of_years_tanker
                  THEN max_number_of_years_tanker ELSE capped
              start_month == IF type = "tanker" THEN strptime(tanker_start_year, 1)
                             ELSE strptime(y, m)
              num_months == MonthsPerYear * number_of_years - 1
              timesteps == [k \in 1..(num_months + 1) |-> start_month + (k - 1)]
          IN sim' = [sim EXCEPT !.simulation_type = type,
                                !.parameters = [cwa_dynamic |-> cwa_dynamic],
                                !.timesteps = timesteps,
                                !.network_timesteps = timesteps]
    /\ pc' = "set_engines"
    /\ UNCHANGED <<idx, node, link_flow, cwa, jva, waj, calls, phases, gw, market>>

\* JordanSimulator.set_engines, with engine_setup.create_engine for every
\* position.
Simulator_set_engines ==
    /\ pc = "set_engines"
    /\ \E sheet \in engines_inputs_sheets :
          sim' = [sim EXCEPT !.sheet = sheet, !.engines = engines_by_order(sheet)]
    /\ pc' = "start"
    /\ UNCHANGED <<idx, node, link_flow, cwa, jva, waj, calls, phases, gw, market>>

\* s.start(): the loop over the timesteps from the first one, offset 0.
Simulator_start ==
    /\ pc = "start"
    /\ sim' = [sim EXCEPT !.loop = "start", !.i = 0, !.last_timestep_idx = 0]
    /\ pc' = "loop_set_timestep"
    /\ UNCHANGED <<idx, node, link_flow, cwa, jva, waj, calls, phases, gw, market>>

\* The head of the loop: network.set_timestep(timestep, idx + offset).
loop_set_timestep ==
    /\ pc = "loop_set_timestep"
    /\ LET timestep == sim.timesteps[sim.i + 1]
           index    == sim.i + sim.last_timestep_idx
       IN /\ idx' = index
          /\ sim' = [sim EXCEPT
                       !.network_timestep = timestep,
                       !.current_timestep = IF sim.loop = "start" THEN timestep ELSE @,
                       !.current_timestep_idx = IF sim.loop = "start" THEN index ELSE @,
                       !.periods = @ + 1,
                       !.ran = <<>>,
                       !.e = 1]
    /\ pc' = IF Len(sim.engines) > 0 THEN "loop_engine_run" ELSE "loop_post_process"
    /\ UNCHANGED <<node, link_flow, cwa, jva, waj, calls, phases, gw, market>>

\* for engine in self.engines: engine.timestep, engine.timestep_idx,
\* engine.run().
loop_engine_run ==
    /\ pc = "loop_engine_run"
    /\ LET engine   == sim.engines[sim.e]
           timestep == sim.timesteps[sim.i + 1]
           after    == engine_run(engine, timestep, sim.parameters)
       IN /\ cwa' = after.cwa
          /\ jva' = after.jva
          /\ waj' = after.waj
          /\ sim' = [sim EXCEPT
                       !.ran = Append(@, [engine       |-> engine,
                                          timestep     |-> timestep,
                                          timestep_idx |-> sim.i + sim.last_timestep_idx,
                                          missing      |-> ForecastMissing(
                                                               engine, timestep,
                                                               sim.parameters),
                                          error        |-> after.error]),
                       !.error = after.error,
                       !.e = @ + 1]
          /\ pc' = IF after.error # "None" THEN "raised"
                   ELSE IF sim.e < Len(sim.engines) THEN "loop_engine_run"
                   ELSE "loop_post_process"
    /\ UNCHANGED <<idx, node, link_flow, calls, phases, gw, market>>

\* self.network.post_process(), and the step to the next timestep of the
\* list, if there is one.
loop_post_process ==
    /\ pc = "loop_post_process"
    /\ sim' = [sim EXCEPT !.i = @ + 1]
    /\ pc' = IF sim.i + 1 < Len(sim.timesteps) THEN "loop_set_timestep" ELSE "finished"
    /\ UNCHANGED <<idx, node, link_flow, cwa, jva, waj, calls, phases, gw, market>>

\* JordanSimulator.add_timesteps, after a run.
Simulator_add_timesteps ==
    /\ pc = "finished"
    /\ sim.extensions < MaxExtensions
    /\ \E nr_years_to_add \in years_to_add,
          current_timestep \in {sim.current_timestep, sim.network_timestep} :
          LET new_timesteps ==
                  [m \in 1..(nr_years_to_add * MonthsPerYear) |-> current_timestep + m]
          IN sim' = [sim EXCEPT !.timesteps = @ \o new_timesteps,
                                !.network_timesteps = sim.timesteps \o new_timesteps,
                                !.extensions = @ + 1]
    /\ pc' = "continue_simulation"
    /\ UNCHANGED <<idx, node, link_flow, cwa, jva, waj, calls, phases, gw, market>>

\* JordanSimulator.continue_simulation: the loop over self.timesteps, with
\* the index of the timestep run last as the offset.
Simulator_continue_simulation ==
    /\ pc = "continue_simulation"
    /\ \E current_timestep_idx \in {sim.current_timestep_idx, idx} :
          sim' = [sim EXCEPT !.loop = "continue", !.i = 0,
                             !.last_timestep_idx = current_timestep_idx]
    /\ pc' = "loop_set_timestep"
    /\ UNCHANGED <<idx, node, link_flow, cwa, jva, waj, calls, phases, gw, market>>

NextRun ==
    \/ Simulator_set_timestep_information
    \/ Simulator_set_engines
    \/ Simulator_start
    \/ loop_set_timestep
    \/ loop_engine_run
    \/ loop_post_process
    \/ Simulator_add_timesteps
    \/ Simulator_continue_simulation

SpecRun == InitRun /\ [][NextRun]_vars

----------------------------------------------------------------------------
(* Properties of the run, checked under SpecRun. *)

\* The position the sheet declares for an engine.
DeclaredPosition(engine) ==
    LET row == CHOOSE i \in 1..Len(sim.sheet) :
                   sim.sheet[i].engine_class = engine.engine_class
    IN sim.sheet[row].order

\* C22: in every period the engines run by rising declared position, every
\* position from 1 to N once when the period ends, each for the institution
\* its row names and on the timestep of the period; the list of engines
\* stays as set_engines made it.
C22_EnginesInDeclaredOrder ==
    /\ pc \in {"loop_engine_run", "loop_post_process"} =>
          /\ \A k \in 1..Len(sim.ran) :
                /\ DeclaredPosition(sim.ran[k].engine) = k
                /\ \E i \in 1..Len(sim.sheet) :
                      /\ sim.sheet[i].engine_class = sim.ran[k].engine.engine_class
                      /\ sim.sheet[i].engine_target = sim.ran[k].engine.target
                /\ sim.ran[k].timestep = sim.network_timestep
                /\ sim.ran[k].timestep_idx = idx
          /\ pc = "loop_post_process" => Len(sim.ran) = no_of_engines
    /\ pc \notin {"set_timestep_information", "set_engines"} =>
          \A k \in 1..Len(sim.engines) : DeclaredPosition(sim.engines[k]) = k

C22_Witness ==
    /\ pc = "loop_post_process"
    /\ sim.loop = "continue"
    /\ sim.periods > MonthsPerYear
    /\ Len(sim.ran) = no_of_engines
    /\ sim.sheet[1].order = 3
    /\ sim.ran[1].engine.engine_class = sim.sheet[2].engine_class

\* C23: over the whole run, the extension included, every period that is
\* processed is the month after the period processed before it, so that no
\* period is processed twice.
C23_PeriodsInCalendarOrder ==
    [][(pc = "loop_set_timestep" /\ sim.periods > 0) =>
          sim'.network_timestep = sim.network_timestep + 1]_vars

\* The same for the periods of the run that start() makes.
C23_CalendarOrderUntilExtended ==
    [][(pc = "loop_set_timestep" /\ sim.periods > 0 /\ sim.loop = "start") =>
          sim'.network_timestep = sim.network_timestep + 1]_vars

\* The index of a period processed by continue_simulation is the index of
\* the period before it plus one.
C23_IndexCountsThePeriods ==
    [][(pc = "loop_set_timestep" /\ sim.periods > 0) => idx' = idx + 1]_vars

----------------------------------------------------------------------------
(* The second allocation of the WAJ forecast engine, checked under Spec. *)

IsWajCall(call) == call.inst = "waj"

\* The calls of WAJ.set_allocation_forecast made in the period so far.
WajForecastCalls == SelectSeq(calls, IsWajCall)

SomeOptimal(call) ==
    \E k \in 1..Len(call.attempts) : call.attempts[k].outcome = "optimal"

\* C26: in a period in which the forecast engine of WAJ computed the
\* forecast, it ran the allocation a second time if and only if neither
\* ipopt nor cplex ended optimal in the first run.
C26_SecondRunIffNoOptimum ==
    (pc \in {"waj_delivery", "post_process", "aborted"} /\ WajForecastCalls # <<>>) =>
        /\ Len(WajForecastCalls) \in {1, 2}
        /\ Len(WajForecastCalls) = 2 <=> ~SomeOptimal(WajForecastCalls[1])

\* One half of it: a first run in which ipopt or cplex ended optimal is not
\* followed by a second run.
C26_NoSecondRunAfterAnOptimum ==
    (pc \in {"waj_delivery", "post_process", "aborted"} /\ WajForecastCalls # <<>>) =>
        (SomeOptimal(WajForecastCalls[1]) => Len(WajForecastCalls) = 1)

\* What decides: the second run is made when the first run returned and
\* left a solver_status other than "ok", which it does also when ipopt
\* raised and cplex ended optimal; its solver is glpk.
C26_SecondRunOnStatus ==
    (pc \in {"waj_delivery", "post_process", "aborted"} /\ WajForecastCalls # <<>>) =>
        /\ Len(WajForecastCalls) \in {1, 2}
        /\ Len(WajForecastCalls) = 2 <=>
              /\ ~WajForecastCalls[1].raised
              /\ WajForecastCalls[1].reported # "ok"
        /\ WajForecastCalls[1].reported = "ok" <=>
              /\ ~WajForecastCalls[1].raised
              /\ SomeOptimal(WajForecastCalls[1])
              /\ WajForecastCalls[1].attempts[1].outcome # "raises"
        /\ Len(WajForecastCalls) = 2 =>
              /\ Len(WajForecastCalls[2].attempts) = 1
              /\ WajForecastCalls[2].attempts[1].backend = "glpk"

----------------------------------------------------------------------------
(* The history JVA reads the past deficits from, checked under SpecRun. *)

\* The timestep of month m that lies before timestep at: in the year of at,
\* or the December before it.
timestep_of_past_month(at, m) ==
    IF m = December THEN at - month_of_timestep(at)
    ELSE at - (month_of_timestep(at) - m)

PastDeficitReadsOwnMonth ==
    \A m \in DOMAIN jva.past_deficit_reads.entries :
        /\ jva.past_deficit_reads.entries[m] # {}
        /\ \A entry \in jva.past_deficit_reads.entries[m] :
              /\ m \in entry.months
              /\ month_of_timestep(entry.timestep) = m
              /\ entry.timestep = timestep_of_past_month(jva.past_deficit_reads.at, m)

\* C27: at every allocation call of JVA, for every month of past_months, the
\* entry of the history that the past deficit of the month is computed from
\* exists and is the entry appended by the call made in that month, of the
\* current year or the December before; one entry is appended per period.
C27_PastDeficitFromTheMonthsEntry ==
    /\ PastDeficitReadsOwnMonth
    /\ Len(jva.node_allocations_history) <= sim.periods

\* The same in a run whose first timestep is a January or a December, the
\* extended run included.
C27_PastDeficitFromTheMonthsEntryFromJanuary ==
    (sim.network_timesteps # <<>>
        /\ month_of_timestep(sim.network_timesteps[1]) \in {1, December}) =>
            /\ PastDeficitReadsOwnMonth
            /\ Len(jva.node_allocations_history) <= sim.periods

\* A lookup of a later year of an extended run that started in January.
C27_JanuaryRunReadsDecember ==
    /\ sim.loop = "continue"
    /\ month_of_timestep(sim.network_timesteps[1]) = 1
    /\ December \in DOMAIN jva.past_deficit_reads.entries
    /\ Cardinality(DOMAIN jva.past_deficit_reads.entries) = 2

----------------------------------------------------------------------------
(* The anchor of the rolling horizon of CWA, checked under SpecAlloc;      *)
(* cwa.storage_solved is the storage variable of the instance CWA solved   *)
(* last.                                                                   *)

\* C28: from the third period on, the initial storage of the model CWA
\* builds is the storage its solve of the period before produced for the
\* month after that period's month, which is the current month.
C28_AnchorIsStorageSolvedBefore ==
    [][(pc = "cwa_forecast" /\ pc' = "jva_forecast" /\ idx >= 2) =>
          /\ month \in DOMAIN cwa.storage_solved
          /\ calls'[1].model.initial_storage = cwa.storage_solved[month]
          /\ calls'[1].model.initial_storage = node["wehdah_res"].history_volume]_vars

\* A third period whose anchor is neither the average volume the run
\* started from nor the storage solved for the month before.
C28_Witness ==
    /\ pc = "jva_forecast"
    /\ idx >= 2
    /\ calls[1].inst = "cwa"
    /\ calls[1].model.initial_storage # volume_averages["wehdah_res"][month_of(0)]
    /\ calls[1].model.initial_storage > 0

----------------------------------------------------------------------------
(* The head and the dry state of the groundwater nodes, checked under      *)
(* SpecGW; gw.pumping_of_pass lists the unit pumping of the passes made.   *)

\* The baseline head of time index t at node n with the responses, at their
\* lags, to the pumping of the periods before t.
head_after_passes_before(n, t) ==
    baseline_heads[matrix_position[n]][t]
        + Sum([s \in 0..(t - 1) |->
                  (0 - 1) * einsum(gw.dd, gw.pumping_of_pass[s + 1],
                                   gw.gw_response_factor, matrix_position[n], t - s)],
              0..(t - 1))

\* C29: the head a node shows in period idx is the baseline head of idx with
\* the response to the pumping of every period before idx, each at the lag
\* of the periods passed since, and with nothing of the pumping of idx or
\* of a later period: it stays so when the pass of idx is made.
C29_HeadReflectsEarlierPumpingOnly ==
    pc \in {"gw_pumping", "gw_response", "gw_post_process", "gw_finished"} =>
        /\ Len(gw.pumping_of_pass) >= idx
        /\ \A n \in gw_nodes :
              /\ node[n].head = head_after_passes_before(n, idx)
              /\ node[n].lift = gw_top[n] - (node[n].head + bias_correction[n])

C29_Witness ==
    /\ pc = "gw_post_process"
    /\ idx >= 2
    /\ gw.dd = dd_drawdown
    /\ Len(gw.pumping_of_pass) = idx + 1
    /\ gw.pumping_of_pass[idx] # gw.pumping_of_pass[idx - 1]
    /\ \E n \in gw_nodes :
          /\ gw.pumping_of_pass[idx + 1][matrix_position[n]] # 0
          /\ gw.pumping_of_pass[idx][matrix_position[n]] # 0
          /\ node[n].head # baseline_heads[matrix_position[n]][idx]
          /\ node[n].head # node[n].head_calc[idx]

\* C30: a node flagged permanently dry keeps the flag, and in every period
\* after it is reported dry with the capacity reduction factor 0, whatever
\* its head is.
C30_PermanentlyDryStaysDry ==
    [][\A n \in gw_nodes :
          node[n].permanently_dry > 0 =>
              /\ node'[n].permanently_dry > 0
              /\ node'[n].check_dry = "True"
              /\ node'[n].capacity_reduction_factor = Zero]_vars

\* A flagged node in a later period whose head is back above the level at
\* which the reduction starts.
C30_Witness ==
    /\ pc = "gw_pumping"
    /\ \E n \in gw_nodes :
          /\ node[n].permanently_dry > 0
          /\ 10 * node[n].head_bias_corr >=
                 10 * gw_bot[n] + gw.gw_reduction_start * (gw_top[n] - gw_bot[n])
          /\ node[n].check_dry = "True"
          /\ node[n].capacity_reduction_factor = Zero

====
